---- MODULE Spec2Model ----
(***************************************************************************)
(* Verification model of the reasoning-orchestrator engine: plan builder,  *)
(* consistency checker, critic, state compactor, text utilities and the    *)
(* plan / assumption repositories.                                         *)
(*                                                                         *)
(* Engine entry points are pure functions: each has a specification whose  *)
(* Init draws an input and whose action applies the function.  The         *)
(* repositories are state machines over their tables.                      *)
(***************************************************************************)
EXTENDS Integers, Sequences, FiniteSets, TLC

VARIABLES
    pc,           \* position of the current call: "ready" | "loop" | "done"
    input,        \* arguments of the call being modelled
    locals,       \* local variables of a call that is inside its loop
    output,       \* value returned by the call
    plans,        \* table plans: sequence of rows in insertion order
    plan_steps,   \* table plan_steps: set of rows
    assumptions,  \* table assumptions: set of rows
    clock,        \* value nowIso() returns
    sessions      \* table sessions: the sessionId of every row

vars == <<pc, input, locals, output, plans, plan_steps, assumptions, clock, sessions>>

\* the value of a variable that holds nothing yet
Null == [null |-> TRUE]

\* ------------------------------------------------------------------------
\* Generic helpers
\* ------------------------------------------------------------------------

Max(a, b) == IF a >= b THEN a ELSE b

Min(a, b) == IF a <= b THEN a ELSE b

Range(s) == {s[i] : i \in 1..Len(s)}

\* s.slice(0, n)
Take(s, n) == SubSeq(s, 1, Min(Len(s), Max(n, 0)))

\* Body(value), the value being computed once however often Body uses it
With(value, Body(_)) == CHOOSE result \in {Body(v) : v \in {value}} : TRUE

\* ------------------------------------------------------------------------
\* utils/validation: size policy and list cap
\* ------------------------------------------------------------------------

ClientModes == {"small", "balanced", "deep"}

POLICY_BY_MODE ==
    [small |->
        [mode |-> "small", maxGenericItems |-> 12, maxSubtasks |-> 8,
         maxFindings |-> 6, maxAlternatives |-> 2, maxDecisionEntries |-> 20,
         maxAssumptions |-> 12, maxRisks |-> 8, maxUnknowns |-> 10,
         maxSuccessCriteria |-> 8, maxActionSuggestions |-> 3,
         textMaxChars |-> 240, shortTextMaxChars |-> 120],
     balanced |->
        [mode |-> "balanced", maxGenericItems |-> 16, maxSubtasks |-> 12,
         maxFindings |-> 10, maxAlternatives |-> 3, maxDecisionEntries |-> 40,
         maxAssumptions |-> 20, maxRisks |-> 12, maxUnknowns |-> 12,
         maxSuccessCriteria |-> 10, maxActionSuggestions |-> 4,
         textMaxChars |-> 480, shortTextMaxChars |-> 200],
     deep |->
        [mode |-> "deep", maxGenericItems |-> 24, maxSubtasks |-> 20,
         maxFindings |-> 16, maxAlternatives |-> 3, maxDecisionEntries |-> 80,
         maxAssumptions |-> 40, maxRisks |-> 18, maxUnknowns |-> 18,
         maxSuccessCriteria |-> 14, maxActionSuggestions |-> 5,
         textMaxChars |-> 900, shortTextMaxChars |-> 320]]

capItemsMutant(items, maxItems) == items

capItems(items, maxItems) ==
    IF maxItems < 0 THEN <<>> ELSE Take(items, maxItems)

\* ------------------------------------------------------------------------
\* utils/validation, utils/tokenEstimate: text sanitising.  Here a string
\* is the sequence of its characters, each a one-character string.
\* ------------------------------------------------------------------------

\* the characters \s matches, as far as the inputs use them
Whitespace == {" ", "\t", "\n"}

Ellipsis == <<".", ".", ".">>

\* input.replace(/\s+/g, " ").trim(): a whitespace character survives, as
\* one space, when it ends a run of whitespace that has a non-whitespace
\* character before it and after it; "" marks a character that is removed
normalizeWhitespace(text) ==
    With(text, LAMBDA str :
        SelectSeq([i \in 1..Len(str) |->
                     IF str[i] \notin Whitespace THEN str[i]
                     ELSE IF /\ i < Len(str)
                             /\ str[i + 1] \notin Whitespace
                             /\ \E k \in 1..(i - 1) : str[k] \notin Whitespace
                          THEN " "
                          ELSE ""],
                  LAMBDA c : c # ""))

keptPrefixMutant(maxChars) == maxChars

\* characters kept in front of the ellipsis by truncateText
keptPrefix(maxChars) == maxChars - 3

truncateText(str, maxChars) ==
    IF maxChars <= 0 THEN <<>>
    ELSE IF Len(str) <= maxChars THEN str
    ELSE IF maxChars <= 3 THEN Take(str, maxChars)
    ELSE Take(str, keptPrefix(maxChars)) \o Ellipsis

sanitizeText(text, maxChars) ==
    With(normalizeWhitespace(text), LAMBDA str : truncateText(str, maxChars))

\* Math.max(1, Math.ceil(text.length / 4))
estimateTokensFromText(str) == Max(1, (Len(str) + 3) \div 4)

\* ------------------------------------------------------------------------
\* reasoning/plan: buildPlan
\* A title is the sequence of its lower-cased words; the keyword tests of
\* the source are word tests (\b...\b).  A step id `step_k` is the number k.
\* ------------------------------------------------------------------------

PlanStrategies == {"minimum-risk", "fastest", "balanced"}

HasWord(title, words) == \E i \in 1..Len(title) : title[i] \in words

normalizeSubtasks(provided) ==
    IF Len(provided) > 0
    THEN [i \in 1..Len(provided) |->
            [id |-> provided[i].id, title |-> provided[i].title,
             dependsOn |-> provided[i].dependsOn]]
    ELSE LET fallback == << <<"clarify", "acceptance", "criteria">>,
                            <<"prepare", "execution", "context">>,
                            <<"implement", "core", "solution">>,
                            <<"verify", "and", "finalize", "output">> >>
         IN [i \in 1..4 |->
               [id |-> "subtask_auto_" \o ToString(i),
                title |-> fallback[i],
                dependsOn |-> IF i = 1 THEN <<>>
                              ELSE <<"subtask_auto_" \o ToString(i - 1)>>]]

\* [...new Set(list)]: first occurrences, in order
Dedupe(list) ==
    With(list, LAMBDA items :
        With(SelectSeq([i \in 1..Len(items) |-> <<i, items[i]>>],
                       LAMBDA p : \A j \in 1..(p[1] - 1) : items[j] # p[2]),
             LAMBDA kept : [k \in 1..Len(kept) |-> kept[k][2]]))

RECURSIVE compressLoop(_, _, _)
compressLoop(subtasks, i, compressed) ==
    IF i > Len(subtasks) THEN compressed
    ELSE IF i + 1 > Len(subtasks)
         THEN compressLoop(subtasks, i + 2, Append(compressed, subtasks[i]))
         ELSE compressLoop(subtasks, i + 2,
                Append(compressed,
                  [id |-> "merged_" \o ToString(Len(compressed) + 1),
                   title |-> subtasks[i].title \o <<"+">> \o subtasks[i + 1].title,
                   dependsOn |-> Dedupe(subtasks[i].dependsOn
                                        \o subtasks[i + 1].dependsOn)]))

\* the threshold test off by one: four subtasks are merged too
compressForFastestMutant(subtasks) ==
    IF Len(subtasks) < 4 THEN subtasks ELSE compressLoop(subtasks, 1, <<>>)

compressForFastest(subtasks) ==
    IF Len(subtasks) <= 4 THEN subtasks ELSE compressLoop(subtasks, 1, <<>>)

inferRisk(title, constraintCount, dependencyCount) ==
    LET score ==
          (IF HasWord(title, {"implement", "migration", "security", "auth",
                              "deploy", "validate"}) THEN 2 ELSE 0)
        + (IF HasWord(title, {"design", "architecture", "integration",
                              "dependency"}) THEN 2 ELSE 0)
        + (IF dependencyCount >= 2 THEN 1 ELSE 0)
        + (IF constraintCount >= 5 THEN 1 ELSE 0)
    IN IF score >= 4 THEN "high" ELSE IF score >= 2 THEN "medium" ELSE "low"

RECURSIVE expandForRisk(_)
expandForRisk(subtasks) ==
    IF subtasks = <<>> THEN <<>>
    ELSE LET subtask == Head(subtasks)
         IN (IF inferRisk(subtask.title, 0, Len(subtask.dependsOn)) # "low"
             THEN << subtask,
                     [id |-> subtask.id \o "_verify",
                      title |-> <<"validate">> \o subtask.title,
                      dependsOn |-> <<subtask.id>>] >>
             ELSE << subtask >>)
            \o expandForRisk(Tail(subtasks))

\* new Map(subtasks.map(s => [s.id, s])): the last subtask carrying an id wins
byIdHas(subtasks, id) == \E i \in 1..Len(subtasks) : subtasks[i].id = id

byIdGet(subtasks, id) ==
    subtasks[CHOOSE i \in 1..Len(subtasks) :
                /\ subtasks[i].id = id
                /\ \A j \in (i + 1)..Len(subtasks) : subtasks[j].id # id]

\* visit(id) of topologicalOrder; st = [visited, visiting, ordered]
RECURSIVE visit(_, _, _), visitDeps(_, _, _, _)
visit(subtasks, id, st) ==
    IF id \in st.visited THEN st
    ELSE IF id \in st.visiting THEN st
    ELSE IF ~byIdHas(subtasks, id) THEN st
    ELSE LET node == byIdGet(subtasks, id)
             entered == [st EXCEPT !.visiting = @ \cup {id}]
             after == visitDeps(subtasks, node.dependsOn, 1, entered)
         IN [visited |-> after.visited \cup {id},
             visiting |-> after.visiting \ {id},
             ordered |-> Append(after.ordered, node)]

visitDeps(subtasks, deps, k, st) ==
    IF k > Len(deps) THEN st
    ELSE visitDeps(subtasks, deps, k + 1,
            IF byIdHas(subtasks, deps[k]) THEN visit(subtasks, deps[k], st)
            ELSE st)

RECURSIVE visitAll(_, _, _)
visitAll(subtasks, k, st) ==
    IF k > Len(subtasks) THEN st
    ELSE visitAll(subtasks, k + 1, visit(subtasks, subtasks[k].id, st))

topologicalOrder(subtasks) ==
    visitAll(subtasks, 1,
             [visited |-> {}, visiting |-> {}, ordered |-> <<>>]).ordered

\* indexById.get(id): 0-based position in ordered, -1 for undefined
indexById(ordered, id) ==
    IF \E i \in 1..Len(ordered) : ordered[i].id = id
    THEN (CHOOSE i \in 1..Len(ordered) :
            /\ ordered[i].id = id
            /\ \A j \in (i + 1)..Len(ordered) : ordered[j].id # id) - 1
    ELSE -1

stepIdByIndex(index) == index + 1

keepDependencyMutant(index, currentIndex) == index >= 0

\* the filter of resolveStepDependencies
keepDependency(index, currentIndex) == index >= 0 /\ index < currentIndex

resolveStepDependenciesMutant(originalDependencies, ordered, currentIndex) ==
    LET indexes == [k \in 1..Len(originalDependencies) |->
                      indexById(ordered, originalDependencies[k])]
        mapped == [k \in 1..Len(indexes) |-> stepIdByIndex(indexes[k])]
    IN IF Len(mapped) > 0
          /\ \A k \in 1..Len(indexes) : keepDependency(indexes[k], currentIndex)
       THEN mapped
       ELSE IF currentIndex = 0 THEN <<>>
       ELSE <<stepIdByIndex(currentIndex - 1)>>

resolveStepDependencies(originalDependencies, ordered, currentIndex) ==
    LET indexes == [k \in 1..Len(originalDependencies) |->
                      indexById(ordered, originalDependencies[k])]
        kept == SelectSeq(indexes, LAMBDA index : keepDependency(index, currentIndex))
        mapped == [k \in 1..Len(kept) |-> stepIdByIndex(kept[k])]
    IN IF Len(mapped) > 0 THEN mapped
       ELSE IF currentIndex = 0 THEN <<>>
       ELSE <<stepIdByIndex(currentIndex - 1)>>

inferVerificationType(title, strategy) ==
    IF HasWord(title, {"test", "verify", "regression"}) THEN "test-check"
    ELSE IF HasWord(title, {"review", "analyz", "assess", "design"}) THEN "review-check"
    ELSE IF HasWord(title, {"evidence", "assumption", "dependency"}) THEN "evidence-check"
    ELSE IF strategy = "fastest" THEN "manual-check"
    ELSE "logic-check"

\* every third step counted from the first instead of from the third
shouldInsertMutant(step, index, strategy, stepCount) ==
    IF strategy = "minimum-risk" THEN step.risk # "low" \/ index % 2 = 1
    ELSE IF strategy = "fastest" THEN index = stepCount - 1
    ELSE step.risk = "high" \/ index % 3 = 0

\* shouldInsert of generateCheckpoints; index is 0-based
shouldInsert(step, index, strategy, stepCount) ==
    IF strategy = "minimum-risk" THEN step.risk # "low" \/ index % 2 = 1
    ELSE IF strategy = "fastest" THEN index = stepCount - 1
    ELSE step.risk = "high" \/ index % 3 = 2

generateCheckpoints(steps, strategy) ==
    LET hits == SelectSeq([i \in 1..Len(steps) |-> i],
                   LAMBDA i : shouldInsert(steps[i], i - 1, strategy, Len(steps)))
    IN [k \in 1..Len(hits) |->
          [checkpointId |-> k, afterStepId |-> steps[hits[k]].stepId,
           highRiskGate |-> steps[hits[k]].risk = "high"]]

\* lines 58-65: the normalised subtasks after the strategy's transform
strategySubtasks(in) ==
    IF in.strategy = "fastest" THEN compressForFastest(normalizeSubtasks(in.subtasks))
    ELSE IF in.strategy = "minimum-risk" THEN expandForRisk(normalizeSubtasks(in.subtasks))
    ELSE normalizeSubtasks(in.subtasks)

\* line 67
cappedSubtasks(in) ==
    capItems(strategySubtasks(in), Max(3, in.policy.maxSubtasks))

buildPlan(in) ==
    LET strategy == in.strategy
        ordered == topologicalOrder(cappedSubtasks(in))
        steps == [i \in 1..Len(ordered) |->
            LET risk == inferRisk(ordered[i].title, in.constraintCount,
                                  Len(ordered[i].dependsOn))
                verificationType == inferVerificationType(ordered[i].title, strategy)
            IN [stepId |-> stepIdByIndex(i - 1),
                order |-> i,
                title |-> ordered[i].title,
                sourceId |-> ordered[i].id,
                dependsOn |-> resolveStepDependencies(ordered[i].dependsOn, ordered, i - 1),
                status |-> "pending",
                verification |-> [required |-> strategy # "fastest" \/ risk # "low",
                                  type |-> verificationType],
                risk |-> risk]]
        checkpoints == IF in.includeCheckpoints
                       THEN generateCheckpoints(steps, strategy) ELSE <<>>
    IN [strategy |-> strategy,
        steps |-> steps,
        checkpoints |-> checkpoints,
        planSummary |->
          [totalSteps |-> Len(steps),
           highRiskSteps |-> Cardinality({i \in 1..Len(steps) : steps[i].risk = "high"}),
           verificationPoints |->
              Cardinality({i \in 1..Len(steps) : steps[i].verification.required})
              + Len(checkpoints)]]

\* ------------------------------------------------------------------------
\* Specification SpecPlan: one build_plan call on a drawn subtask list.
\* Subtask i carries the id IdNames[i]; dependency lists name defined ids
\* (earlier, later, itself) and the undefined id "x".
\* ------------------------------------------------------------------------

MaxSubtasks == 3

IdNames == <<"a", "b", "c", "d", "e", "f", "g", "h">>

PlanTitles == { <<"clarify", "scope">>, <<"implement", "fix">> }

DepLists(n) ==
    LET defined == {IdNames[i] : i \in 1..n}
    IN {<<>>} \cup {<<d>> : d \in defined \cup {"x"}}
       \cup {<<"a", "c">>, <<"b", "x">>}

\* the subtask lists drawn: at most one subtask carries the risky title
PlanInputs ==
    UNION { { [i \in 1..n |->
                 [id |-> IdNames[i],
                  title |-> IF i = risky THEN <<"implement", "fix">>
                            ELSE <<"clarify", "scope">>,
                  dependsOn |-> deps[i]]] :
              deps \in [1..n -> DepLists(n)], risky \in 0..n }
            : n \in 0..MaxSubtasks }

InitPlan ==
    /\ pc = "ready"
    /\ input \in {[subtasks |-> st] : st \in PlanInputs}
    /\ locals = Null
    /\ output = Null
    /\ plans = <<>>
    /\ plan_steps = {}
    /\ assumptions = {}
    /\ clock = 0
    /\ sessions = {}

BuildPlanCall(strategy, constraintCount, mode) ==
    /\ pc = "ready"
    /\ LET in == [subtasks |-> input.subtasks, strategy |-> strategy,
                  constraintCount |-> constraintCount, includeCheckpoints |-> TRUE,
                  policy |-> POLICY_BY_MODE[mode]]
       IN /\ input' = in
          /\ output' = buildPlan(in)
    /\ pc' = "done"
    /\ UNCHANGED <<locals, plans, plan_steps, assumptions, clock, sessions>>

NextPlan ==
    \E strategy \in PlanStrategies, constraintCount \in {0, 5} :
        BuildPlanCall(strategy, constraintCount, "small")

SpecPlan == InitPlan /\ [][NextPlan]_vars

\* the steps a step reaches through dependsOn, within k edges
RECURSIVE ReachableSteps(_, _, _)
ReachableSteps(steps, from, k) ==
    IF k = 0 THEN from
    ELSE ReachableSteps(steps,
            from \cup UNION {Range(steps[i].dependsOn) :
                               i \in {j \in 1..Len(steps) : steps[j].stepId \in from}},
            k - 1)

\* C1: every id in a step's dependsOn is the stepId of a step of the same
\* plan with a strictly smaller order, and no step reaches itself through
\* dependsOn edges.
C1_PlanDependenciesPointBack ==
    pc = "done" =>
        LET steps == output.steps
        IN \A i \in 1..Len(steps) :
              /\ \A d \in Range(steps[i].dependsOn) :
                    \E j \in 1..Len(steps) :
                        steps[j].stepId = d /\ steps[j].order < steps[i].order
              /\ steps[i].stepId \notin
                    ReachableSteps(steps, Range(steps[i].dependsOn), Len(steps))

\* a plan built from a list whose first two subtasks depend on each other,
\* with a third naming an undefined id
C1_Witness ==
    /\ pc = "done"
    /\ Len(input.subtasks) = 3
    /\ input.subtasks[1].dependsOn = <<"b">>
    /\ input.subtasks[2].dependsOn = <<"a">>
    /\ input.subtasks[3].dependsOn = <<"x">>
    /\ Len(output.steps) >= 3
    /\ \E i \in 1..Len(output.steps) : output.steps[i].dependsOn # <<>>

\* ------------------------------------------------------------------------
\* reasoning/consistency: runConsistencyCheck
\* A text (claim, conclusion, step text, plan text, log summary) is the
\* sequence of its lower-cased words.  The opaque issueId (newId) is read
\* by nothing and is left out of an issue.
\* ------------------------------------------------------------------------

CheckTargets ==
    {"contradictions", "missing-steps", "circular-deps", "unsupported-claims",
     "goal-drift"}

makeIssue(type, severity, affectedItems, policy) ==
    [type |-> type, severity |-> severity,
     affectedItems |-> capItems(affectedItems, policy.maxGenericItems)]

NegationWords == {"no", "not", "never", "cannot", "can't", "without", "failed"}

Stopwords ==
    {"the", "a", "an", "and", "or", "to", "for", "of", "in", "on", "with", "is",
     "are", "be", "by", "this", "that"}

keywordSet(text) ==
    {text[i] : i \in {j \in 1..Len(text) : Len(text[j]) >= 4 /\ text[j] \notin Stopwords}}

isContradictoryPair(a, b) ==
    IF HasWord(a, NegationWords) = HasWord(b, NegationWords)
    THEN FALSE
    ELSE Cardinality(keywordSet(a) \cap keywordSet(b)) >= 2

\* concatenation of the sequences f[1], ..., f[n]
RECURSIVE Flatten(_)
Flatten(f) == IF f = <<>> THEN <<>> ELSE Head(f) \o Flatten(Tail(f))

detectContradictions(claims, conclusions, policy) ==
    Flatten([i \in 1..Len(claims) |->
      Flatten([j \in 1..Len(conclusions) |->
        IF isContradictoryPair(claims[i], conclusions[j])
        THEN <<makeIssue("contradiction", "high",
                         <<claims[i], conclusions[j]>>, policy)>>
        ELSE <<>>])])

\* indexById of detectMissingSteps: 0-based, -1 for undefined, last id wins
stepIndexById(steps, id) ==
    IF \E i \in 1..Len(steps) : steps[i].id = id
    THEN (CHOOSE i \in 1..Len(steps) :
            /\ steps[i].id = id
            /\ \A j \in (i + 1)..Len(steps) : steps[j].id # id) - 1
    ELSE -1

DeployWords == {"deploy", "release", "production"}

detectMissingSteps(steps, planText, conclusions, policy) ==
    IF Len(conclusions) > 0 /\ Len(steps) = 0
    THEN <<makeIssue("missing-step", "high",
                     conclusions, policy)>>
    ELSE
      Flatten([i \in 1..Len(steps) |->
        Flatten([k \in 1..Len(steps[i].dependsOn) |->
          LET depId == steps[i].dependsOn[k]
              depIndex == stepIndexById(steps, depId)
          IN IF depIndex = -1
             THEN <<makeIssue("missing-step", "high", <<steps[i].id, depId>>, policy)>>
             ELSE IF depIndex > i - 1
             THEN <<makeIssue("missing-step", "medium", <<steps[i].id, depId>>, policy)>>
             ELSE <<>>])])
      \o (IF HasWord(planText, DeployWords)
             /\ ~\E i \in 1..Len(steps) : HasWord(steps[i].text, DeployWords)
          THEN <<makeIssue("missing-step", "medium", <<planText>>, policy)>>
          ELSE <<>>)

\* edges.has / edges.get of detectCircularDependencies: the last step
\* carrying an id sets its edge list
edgesHas(steps, id) == \E i \in 1..Len(steps) : steps[i].id = id

edgesGet(steps, id) == steps[stepIndexById(steps, id) + 1].dependsOn

reportCycleMutant(node, stack) == FALSE

\* the test `stack.has(node)` that reports a cycle
reportCycle(node, stack) == node \in stack

\* dfs(node) of detectCircularDependencies; st = [visited, stack, issues]
RECURSIVE dfs(_, _, _, _), dfsDeps(_, _, _, _, _)
dfs(steps, node, st, policy) ==
    IF reportCycle(node, st.stack)
    THEN [st EXCEPT !.issues =
            Append(@, makeIssue("circular-dependency", "high", <<node>>, policy))]
    ELSE IF node \in st.visited THEN st
    ELSE LET entered == [st EXCEPT !.visited = @ \cup {node},
                                   !.stack = @ \cup {node}]
             deps == IF edgesHas(steps, node) THEN edgesGet(steps, node) ELSE <<>>
             after == dfsDeps(steps, deps, 1, entered, policy)
         IN [after EXCEPT !.stack = @ \ {node}]

dfsDeps(steps, deps, k, st, policy) ==
    IF k > Len(deps) THEN st
    ELSE dfsDeps(steps, deps, k + 1,
            IF edgesHas(steps, deps[k]) THEN dfs(steps, deps[k], st, policy)
            ELSE st,
            policy)

RECURSIVE dfsAll(_, _, _, _)
dfsAll(steps, k, st, policy) ==
    IF k > Len(steps) THEN st
    ELSE dfsAll(steps, k + 1, dfs(steps, steps[k].id, st, policy), policy)

detectCircularDependencies(steps, policy) ==
    dfsAll(steps, 1, [visited |-> {}, stack |-> {}, issues |-> <<>>], policy).issues

EvidentialWords == {"because", "therefore", "proves", "confirmed"}

\* the first word of five or more letters, "" when there is none
extractClaimAnchor(claim) ==
    LET long == SelectSeq(claim, LAMBDA token : Len(token) >= 5)
    IN IF long = <<>> THEN "" ELSE long[1]

\* a decision log is [kind, summary]; `includes(anchor)` is modelled on
\* words: the log text carries the anchor word, and any text includes ""
detectUnsupportedClaims(claims, conclusions, sessionAssumptions, decisionLogs, policy) ==
    LET verifiedAssumptions == SelectSeq(sessionAssumptions,
                                   LAMBDA item : item.status = "verified")
        evidenceLogs == SelectSeq(decisionLogs,
                            LAMBDA log : log.kind \in {"result", "checkpoint"})
        hasEvidence(claim) ==
            \E k \in 1..Len(decisionLogs) :
                \/ extractClaimAnchor(claim) = ""
                \/ extractClaimAnchor(claim) \in Range(decisionLogs[k].summary)
    IN (IF Len(claims) = 0 /\ Len(conclusions) > 0
        THEN <<makeIssue("unsupported-claim", "high",
                         conclusions, policy)>>
        ELSE <<>>)
       \o (IF Len(conclusions) > 0 /\ Len(verifiedAssumptions) = 0
              /\ Len(evidenceLogs) = 0
           THEN <<makeIssue("unsupported-claim", "high",
                            Take(conclusions, 3), policy)>>
           ELSE <<>>)
       \o Flatten([i \in 1..Len(claims) |->
             IF HasWord(claims[i], EvidentialWords) /\ ~hasEvidence(claims[i])
             THEN <<makeIssue("unsupported-claim", "medium", <<claims[i]>>, policy)>>
             ELSE <<>>])

\* `!normalizedGoal` holds of an absent goal and of the empty text, both
\* <<>> here; the ratio tests ratio >= 0.3 and ratio < 0.15 are
\* cross-multiplied
detectGoalDrift(normalizedGoal, claims, conclusions, stepTexts, planText, policy) ==
    IF normalizedGoal = <<>> THEN <<>>
    ELSE IF Cardinality(keywordSet(normalizedGoal)) = 0 THEN <<>>
    ELSE LET goalKeywords == keywordSet(normalizedGoal)
             corpus == Flatten(claims) \o Flatten(conclusions) \o Flatten(stepTexts)
                       \o planText
             overlap == Cardinality(goalKeywords \cap keywordSet(corpus))
             size == Cardinality(goalKeywords)
         IN IF 10 * overlap >= 3 * size THEN <<>>
            ELSE <<makeIssue("goal-drift",
                             IF 100 * overlap < 15 * size THEN "high" ELSE "medium",
                             <<normalizedGoal>>, policy)>>

runConsistencyCheck(in) ==
    LET targets == in.checkTargets
        claims == in.draft.claims
        conclusions == in.draft.conclusions
        planText == in.draft.planText
        \* draft.steps ?? sessionPlanSteps ?? []; draft.stepsGiven tells
        \* whether draft.steps is defined, an absent sessionPlanSteps is <<>>
        steps == IF in.draft.stepsGiven
                 THEN [i \in 1..Len(in.draft.steps) |->
                         [id |-> in.draft.steps[i].id, text |-> in.draft.steps[i].text,
                          dependsOn |-> in.draft.steps[i].dependsOn]]
                 ELSE [i \in 1..Len(in.sessionPlanSteps) |->
                         [id |-> in.sessionPlanSteps[i].stepId,
                          text |-> in.sessionPlanSteps[i].title,
                          dependsOn |-> in.sessionPlanSteps[i].dependsOn]]
        issues ==
            (IF "contradictions" \in targets
             THEN detectContradictions(claims, conclusions, in.policy) ELSE <<>>)
            \o (IF "missing-steps" \in targets
                THEN detectMissingSteps(steps, planText, conclusions, in.policy)
                ELSE <<>>)
            \o (IF "circular-deps" \in targets
                THEN detectCircularDependencies(steps, in.policy) ELSE <<>>)
            \o (IF "unsupported-claims" \in targets
                THEN detectUnsupportedClaims(claims, conclusions, in.sessionAssumptions,
                                             in.recentDecisionLogs, in.policy)
                ELSE <<>>)
            \o (IF "goal-drift" \in targets
                THEN detectGoalDrift(in.normalizedGoal, claims, conclusions,
                                     [i \in 1..Len(steps) |-> steps[i].text],
                                     planText, in.policy)
                ELSE <<>>)
        capped == capItems(issues, in.policy.maxFindings)
    IN [issues |-> capped,
        summary |->
          [total |-> Len(capped),
           highSeverity |->
              Cardinality({i \in 1..Len(capped) : capped[i].severity = "high"}),
           pass |-> Len(capped) = 0]]

\* ------------------------------------------------------------------------
\* Specification SpecCheck: runConsistencyCheck applied to bounded inputs
\* ------------------------------------------------------------------------

MaxCheckSteps == 3

\* number of extra references to the undefined id "x" on the first step
ExtraRefs == 6

CheckDepLists(n) ==
    LET defined == {IdNames[i] : i \in 1..n}
    IN {<<>>} \cup {<<d>> : d \in defined \cup {"x"}} \cup {<<"b", "c">>}

\* "draft": draft.steps given; "session": only sessionPlanSteps given;
\* "dup": draft steps whose second id repeats the first; "texts": draft
\* steps together with claims, conclusions, plan text and a goal
CheckScenarios == {"draft", "session", "dup", "texts"}

CheckTargetSets == {CheckTargets, {"circular-deps"}, {"missing-steps"}}

CheckStepLists ==
    UNION { { [i \in 1..n |-> [id |-> IdNames[i], dependsOn |-> deps[i]]] :
              deps \in [1..n -> CheckDepLists(n)] }
            : n \in 0..MaxCheckSteps }

InitCheck ==
    /\ pc = "ready"
    /\ input \in {[steps |-> st, scenario |-> sc, extraRefs |-> pad,
                   checkTargets |-> tg] :
                    st \in CheckStepLists, sc \in CheckScenarios,
                    pad \in {0, ExtraRefs}, tg \in CheckTargetSets}
    /\ locals = Null
    /\ output = Null
    /\ plans = <<>>
    /\ plan_steps = {}
    /\ assumptions = {}
    /\ clock = 0
    /\ sessions = {}

\* the step list of the call: ids by position (the second repeating the
\* first in scenario "dup"), the first step carrying the extra references
CheckSteps(in) ==
    [i \in 1..Len(in.steps) |->
        [id |-> IF in.scenario = "dup" /\ i = 2 THEN in.steps[1].id
                ELSE in.steps[i].id,
         text |-> <<"step", "work">>,
         dependsOn |-> IF i = 1
                       THEN in.steps[i].dependsOn \o [k \in 1..in.extraRefs |-> "x"]
                       ELSE in.steps[i].dependsOn]]

ConsistencyCheckCall(mode) ==
    /\ pc = "ready"
    /\ LET steps == CheckSteps(input)
           texts == input.scenario = "texts"
           in == [draft |->
                    [claims |-> IF texts THEN << <<"cache", "layer", "never", "fails">> >>
                                ELSE <<>>,
                     conclusions |-> IF texts THEN << <<"cache", "layer", "fails">> >>
                                     ELSE <<>>,
                     planText |-> IF texts THEN <<"release", "cache">> ELSE <<>>,
                     stepsGiven |-> input.scenario # "session",
                     steps |-> IF input.scenario = "session" THEN <<>> ELSE steps],
                  checkTargets |-> input.checkTargets,
                  normalizedGoal |-> IF texts THEN <<"reduce", "latency">> ELSE <<>>,
                  sessionPlanSteps |->
                    IF input.scenario = "session"
                    THEN [i \in 1..Len(steps) |->
                            [stepId |-> steps[i].id, title |-> steps[i].text,
                             dependsOn |-> steps[i].dependsOn]]
                    ELSE <<>>,
                  sessionAssumptions |-> <<>>,
                  recentDecisionLogs |-> <<>>,
                  policy |-> POLICY_BY_MODE[mode]]
       IN /\ input' = in
          /\ output' = runConsistencyCheck(in)
    /\ pc' = "done"
    /\ UNCHANGED <<locals, plans, plan_steps, assumptions, clock, sessions>>

NextCheck == \E mode \in {"small", "balanced"} : ConsistencyCheckCall(mode)

SpecCheck == InitCheck /\ [][NextCheck]_vars

\* the step list a finished call checked
CheckedSteps ==
    IF input.draft.stepsGiven THEN input.draft.steps
    ELSE [i \in 1..Len(input.sessionPlanSteps) |->
            [id |-> input.sessionPlanSteps[i].stepId,
             dependsOn |-> input.sessionPlanSteps[i].dependsOn]]

DefinedIds(steps) == {steps[i].id : i \in 1..Len(steps)}

\* the defined ids reached from the ids `from` within k dependency edges,
\* an id's edges being those of the last step that carries it
RECURSIVE EdgeClosure(_, _, _)
EdgeClosure(steps, from, k) ==
    IF k = 0 THEN from
    ELSE EdgeClosure(steps,
            from \cup UNION {Range(edgesGet(steps, id)) \cap DefinedIds(steps) :
                               id \in from},
            k - 1)

OnCycle(steps, id) ==
    /\ id \in DefinedIds(steps)
    /\ id \in EdgeClosure(steps, Range(edgesGet(steps, id)) \cap DefinedIds(steps),
                          Len(steps))

CircularIssues == {i \in 1..Len(output.issues) :
                     output.issues[i].type = "circular-dependency"}

CyclicCheckDone ==
    /\ pc = "done"
    /\ "circular-deps" \in input.checkTargets
    /\ \E id \in DefinedIds(CheckedSteps) : OnCycle(CheckedSteps, id)

CompactSections ==
    {"goal", "constraints", "open-risks", "assumptions", "current-plan",
     "recent-results", "decisions"}

\* key, label and priority of the eight sections, in buildSections' order
SectionTable ==
    <<
      [key |-> "goal", priority |-> 1,
       label |->
         <<"G", "o", "a", "l">>],
      [key |-> "constraints", priority |-> 2,
       label |->
         <<"C", "o", "n", "s", "t", "r", "a", "i", "n", "t", "s">>],
      [key |-> "current-plan", priority |-> 1,
       label |->
         <<"C", "u", "r", "r", "e", "n", "t", " ", "P", "l", "a", "n", " ",
           "S", "t", "a", "t", "u", "s">>],
      [key |-> "open-risks", priority |-> 2,
       label |->
         <<"O", "p", "e", "n", " ", "R", "i", "s", "k", "s">>],
      [key |-> "assumptions", priority |-> 2,
       label |->
         <<"V", "e", "r", "i", "f", "i", "e", "d", "/", "U", "n", "v", "e",
           "r", "i", "f", "i", "e", "d", " ", "A", "s", "s", "u", "m", "p",
           "t", "i", "o", "n", "s">>],
      [key |-> "recent-results", priority |-> 3,
       label |->
         <<"L", "a", "s", "t", " ", "R", "e", "s", "u", "l", "t", "s">>],
      [key |-> "decisions", priority |-> 3,
       label |->
         <<"D", "e", "c", "i", "s", "i", "o", "n", "s">>],
      [key |-> "next-actions", priority |-> 1,
       label |->
         <<"N", "e", "x", "t", " ", "I", "m", "m", "e", "d", "i", "a", "t",
           "e", " ", "A", "c", "t", "i", "o", "n", "s">>]
    >>

\* "N/A"
TextNA ==
    <<"N", "/", "A">>

\* "none"
TextNone ==
    <<"n", "o", "n", "e">>

\* " ; "
ItemSeparator ==
    <<" ", ";", " ">>

\* " | "
SectionSeparator ==
    <<" ", "|", " ">>

\* ": "
LabelSeparator ==
    <<":", " ">>

\* "Execute "
TextExecute ==
    <<"E", "x", "e", "c", "u", "t", "e", " ">>

\* "Run next_best_action to determine follow-up."
TextRunNext ==
    <<"R", "u", "n", " ", "n", "e", "x", "t", "_", "b", "e", "s", "t", "_",
      "a", "c", "t", "i", "o", "n", " ", "t", "o", " ", "d", "e", "t", "e",
      "r", "m", "i", "n", "e", " ", "f", "o", "l", "l", "o", "w", "-", "u",
      "p", ".">>

\* "step_"
TextStepPrefix ==
    <<"s", "t", "e", "p", "_">>

\* "verified="
TextVerified ==
    <<"v", "e", "r", "i", "f", "i", "e", "d", "=">>

\* "unverified="
TextUnverified ==
    <<"u", "n", "v", "e", "r", "i", "f", "i", "e", "d", "=">>

\* "pending="
TextPending ==
    <<"p", "e", "n", "d", "i", "n", "g", "=">>

\* ", in_progress="
TextInProgress ==
    <<",", " ", "i", "n", "_", "p", "r", "o", "g", "r", "e", "s", "s", "=">>

\* ", blocked="
TextBlocked ==
    <<",", " ", "b", "l", "o", "c", "k", "e", "d", "=">>

\* ", done="
TextDone ==
    <<",", " ", "d", "o", "n", "e", "=">>

\* ", skipped="
TextSkipped ==
    <<",", " ", "s", "k", "i", "p", "p", "e", "d", "=">>

\* the kind of a log as `${log.kind}` prints it
KindText ==
    [decision |-> <<"d", "e", "c", "i", "s", "i", "o", "n">>,
     checkpoint |-> <<"c", "h", "e", "c", "k", "p", "o", "i", "n", "t">>]

DigitChars == <<"0", "1", "2", "3", "4", "5", "6", "7", "8", "9">>

\* decimal digits of a natural number, as a template literal prints it
RECURSIVE Digits(_)
Digits(n) ==
    IF n < 10 THEN <<DigitChars[n + 1]>>
    ELSE Digits(n \div 10) \o <<DigitChars[(n % 10) + 1]>>

\* values.join(sep)
RECURSIVE JoinWith(_, _)
JoinWith(values, sep) ==
    IF values = <<>> THEN <<>>
    ELSE IF Len(values) = 1 THEN values[1]
    ELSE values[1] \o sep \o JoinWith(Tail(values), sep)

line(value) == normalizeWhitespace(value)

lines(values, cap) ==
    LET cleaned == SelectSeq([i \in 1..Len(values) |-> line(values[i])],
                             LAMBDA value : Len(value) > 0)
        sliced == capItems(cleaned, cap)
    IN IF Len(sliced) = 0 THEN TextNone ELSE JoinWith(sliced, ItemSeparator)

resolveTargetTokens(targetTokensGiven, targetTokens, policy) ==
    IF targetTokensGiven THEN targetTokens
    ELSE IF policy.mode = "small" THEN 300
    ELSE IF policy.mode = "deep" THEN 1400
    ELSE 700

countStatus(steps, status) ==
    Cardinality({i \in 1..Len(steps) : steps[i].status = status})

summarizePlanStatus(steps) ==
    TextPending \o Digits(countStatus(steps, "pending"))
    \o TextInProgress \o Digits(countStatus(steps, "in_progress"))
    \o TextBlocked \o Digits(countStatus(steps, "blocked"))
    \o TextDone \o Digits(countStatus(steps, "done"))
    \o TextSkipped \o Digits(countStatus(steps, "skipped"))

\* the text of section `key`; an absent or empty goal is <<>>, a step is
\* [stepId, title, status], an assumption [text, status], a log
\* [kind, summary]
sectionText(key, in) ==
    LET summaries(kinds) == SelectSeq(in.decisionLogs, LAMBDA log : log.kind \in kinds)
        risky == SelectSeq(in.assumptions,
                           LAMBDA item : item.status \in {"risky", "contradicted"})
        openRisks == [i \in 1..Len(summaries({"risk"})) |-> summaries({"risk"})[i].summary]
                     \o [i \in 1..Len(risky) |-> risky[i].text]
        verifiedCount == Cardinality({i \in 1..Len(in.assumptions) :
                                        in.assumptions[i].status = "verified"})
        unverifiedCount == Len(in.assumptions) - verifiedCount
        pending == SelectSeq(in.planSteps, LAMBDA step : step.status = "pending")
        nextImmediateActions ==
            IF pending # <<>>
            THEN <<TextExecute \o pending[1].stepId \o LabelSeparator \o pending[1].title>>
            ELSE <<TextRunNext>>
        results == Take(summaries({"result"}), 5)
        decisions == Take(summaries({"decision", "checkpoint"}), 6)
    IN CASE key = "goal" -> IF in.goal # <<>> THEN line(in.goal) ELSE line(TextNA)
         [] key = "constraints" -> lines(in.constraints, 6)
         [] key = "current-plan" -> lines(<<summarizePlanStatus(in.planSteps)>>, 1)
         [] key = "open-risks" -> lines(openRisks, 6)
         [] key = "assumptions" ->
              lines(<<TextVerified \o Digits(verifiedCount),
                      TextUnverified \o Digits(unverifiedCount)>>, 2)
         [] key = "recent-results" ->
              lines([i \in 1..Len(results) |-> results[i].summary], 4)
         [] key = "decisions" ->
              lines([i \in 1..Len(decisions) |->
                       KindText[decisions[i].kind] \o <<":">> \o decisions[i].summary], 4)
         [] key = "next-actions" -> lines(nextImmediateActions, 3)

buildSections(in) ==
    [i \in 1..Len(SectionTable) |->
        [key |-> SectionTable[i].key, label |-> SectionTable[i].label,
         text |-> sectionText(SectionTable[i].key, in),
         priority |-> SectionTable[i].priority]]

\* [...sections].filter(...).sort(...)[0] as an index into sections, 0
\* for undefined: the sort is stable, so among the candidates that the
\* comparator ranks first the earliest one comes first
pickCompressibleSection(sections, preserve) ==
    LET candidates == {i \in 1..Len(sections) :
                         /\ Len(sections[i].text) > 80
                         /\ (sections[i].key \notin preserve
                             \/ Len(sections[i].text) > 140)}
        before(i, j) == Len(sections[i].text) > Len(sections[j].text)
    IN IF candidates = {} THEN 0
       ELSE CHOOSE i \in candidates :
               \A j \in candidates \ {i} : before(i, j) \/ (~before(j, i) /\ i < j)

pickDroppableSectionMutant(sections, preserve) ==
    LET candidates == {i \in 1..Len(sections) :
                         /\ Len(sections[i].text) > 0
                         /\ sections[i].key \notin preserve
                         /\ sections[i].key # "next-actions"}
        before(i, j) == Len(sections[i].text) > Len(sections[j].text)
    IN IF candidates = {} THEN 0
       ELSE CHOOSE i \in candidates :
               \A j \in candidates \ {i} : before(i, j) \/ (~before(j, i) /\ i < j)

pickDroppableSection(sections, preserve) ==
    LET candidates == {i \in 1..Len(sections) :
                         /\ Len(sections[i].text) > 0
                         /\ sections[i].key \notin preserve
                         /\ sections[i].key # "next-actions"}
        before(i, j) == \/ sections[i].priority > sections[j].priority
                        \/ /\ sections[i].priority = sections[j].priority
                           /\ Len(sections[i].text) > Len(sections[j].text)
    IN IF candidates = {} THEN 0
       ELSE CHOOSE i \in candidates :
               \A j \in candidates \ {i} : before(i, j) \/ (~before(j, i) /\ i < j)

trimSectionTextMutant(text) == text

trimSectionText(text) ==
    IF Len(text) <= 80 THEN text
    ELSE Take(text, Max(60, (Len(text) * 78) \div 100)) \o Ellipsis

sectionsToText(sections) ==
    With(SelectSeq(sections, LAMBDA section : Len(section.text) > 0),
         LAMBDA shown :
            JoinWith([i \in 1..Len(shown) |->
                        shown[i].label \o LabelSeparator \o shown[i].text],
                     SectionSeparator))

\* the value compactReasoningState returns once its loop has ended
compactReturn(frame, preserve) ==
    With(sanitizeText(frame.compactedText, Max(400, frame.targetChars)),
         LAMBDA compactState :
            [compactState |-> compactState,
             beforeEstimatedTokens |-> frame.beforeEstimatedTokens,
             afterEstimatedTokens |-> estimateTokensFromText(compactState),
             preservedSections |-> capItems(Dedupe(preserve), 7),
             droppedOrCompressedSections |-> capItems(frame.droppedOrCompressed, 7)])

\* ------------------------------------------------------------------------
\* Specification SpecCompact: compactReasoningState, one action per
\* iteration of its loop
\* ------------------------------------------------------------------------

\* length of a long input text, of a step title and of an assumption text
LongLen == 200

TitleLen == 100

ShortLen == 30

Fill(c, n) == [i \in 1..n |-> c]

\* a long text with a run of whitespace in it
LongText(c) == Fill(c, LongLen) \o <<" ", "\t", c, c>>

CompactGoals == {<<>>, <<" ">>, LongText("g")}

CompactConstraints == {<<>>, <<LongText("c"), <<" ">>, LongText("k")>>}

CompactLogs ==
    LET risks == <<[kind |-> "risk", summary |-> LongText("r")]>>
        results == <<[kind |-> "result", summary |-> LongText("s")]>>
        decisions == <<[kind |-> "decision", summary |-> LongText("d")],
                       [kind |-> "checkpoint", summary |-> LongText("p")]>>
    IN {<<>>, results, risks \o results \o decisions}

\* the plan steps and assumptions of the session
CompactSessions ==
    {[planSteps |-> <<>>, assumptions |-> <<>>],
     [planSteps |->
        <<[stepId |-> TextStepPrefix \o Digits(1), title |-> Fill("t", ShortLen),
           status |-> "done"],
          [stepId |-> TextStepPrefix \o Digits(2), title |-> Fill("t", TitleLen),
           status |-> "pending"]>>,
      assumptions |->
        <<[text |-> Fill("a", ShortLen), status |-> "risky"],
          [text |-> Fill("v", ShortLen), status |-> "verified"]>>]}

CompactPreserves ==
    {<<>>, <<"goal">>, <<"decisions", "constraints", "decisions">>,
     <<"goal", "constraints", "open-risks", "assumptions", "current-plan",
       "recent-results", "decisions">>}

\* targetTokens given (the schema asks for 50..100000) or left to the mode
CompactTargets ==
    {[targetTokensGiven |-> TRUE, targetTokens |-> 50, mode |-> "small"],
     [targetTokensGiven |-> TRUE, targetTokens |-> 90, mode |-> "balanced"],
     [targetTokensGiven |-> FALSE, targetTokens |-> 0, mode |-> "small"],
     [targetTokensGiven |-> FALSE, targetTokens |-> 0, mode |-> "balanced"],
     [targetTokensGiven |-> FALSE, targetTokens |-> 0, mode |-> "deep"]}

CompactInputs ==
    {[targetTokensGiven |-> tg.targetTokensGiven,
      targetTokens |-> tg.targetTokens, preserve |-> pr, goal |-> g,
      constraints |-> cs, planSteps |-> ss.planSteps,
      assumptions |-> ss.assumptions, decisionLogs |-> lg,
      policy |-> POLICY_BY_MODE[tg.mode]] :
        tg \in CompactTargets, pr \in CompactPreserves,
        g \in CompactGoals, cs \in CompactConstraints,
        ss \in CompactSessions, lg \in CompactLogs}

\* lines 43-52: the local variables when the loop condition is first tested
compactFrame(in) ==
    LET sections == buildSections(in)
    IN [working |-> sections,
        compactedText |-> sectionsToText(sections),
        targetChars |-> 4 * resolveTargetTokens(in.targetTokensGiven,
                                                in.targetTokens, in.policy),
        droppedOrCompressed |-> <<>>,
        beforeEstimatedTokens |-> estimateTokensFromText(sectionsToText(sections))]

\* a call that has run lines 43-52 on its input and stands at the loop
InitCompact ==
    /\ pc = "loop"
    /\ input \in CompactInputs
    /\ locals = compactFrame(input)
    /\ output = Null
    /\ plans = <<>>
    /\ plan_steps = {}
    /\ assumptions = {}
    /\ clock = 0
    /\ sessions = {}

overTarget == Len(locals.compactedText) > locals.targetChars

\* the frame after section `index` got the text `text`
withSectionText(index, text) ==
    With([locals.working EXCEPT ![index].text = text],
         LAMBDA working :
            [locals EXCEPT !.working = working,
                           !.compactedText = sectionsToText(working),
                           !.droppedOrCompressed =
                               IF working[index].key \in Range(@) THEN @
                               ELSE Append(@, working[index].key)])

\* lines 55-63: an iteration that trims the largest compressible section
CompactTrim ==
    /\ pc = "loop"
    /\ overTarget
    /\ \E index \in {pickCompressibleSection(locals.working, Range(input.preserve))} :
          /\ index # 0
          /\ \E trimmed \in {trimSectionText(locals.working[index].text)} :
                locals' = withSectionText(index, trimmed)
    /\ UNCHANGED <<pc, input, output, plans, plan_steps, assumptions, clock, sessions>>

\* lines 65-73: an iteration that empties a droppable section
CompactDrop ==
    /\ pc = "loop"
    /\ overTarget
    /\ pickCompressibleSection(locals.working, Range(input.preserve)) = 0
    /\ \E index \in {pickDroppableSection(locals.working, Range(input.preserve))} :
          /\ index # 0
          /\ locals' = withSectionText(index, <<>>)
    /\ UNCHANGED <<pc, input, output, plans, plan_steps, assumptions, clock, sessions>>

\* lines 66-69 and 76-83: nothing is left to trim or drop; the target is
\* relaxed, the loop is left and the function returns
CompactRelaxReturn ==
    /\ pc = "loop"
    /\ overTarget
    /\ pickCompressibleSection(locals.working, Range(input.preserve)) = 0
    /\ pickDroppableSection(locals.working, Range(input.preserve)) = 0
    /\ \E frame \in {[locals EXCEPT !.targetChars = (@ * 11) \div 10]} :
          /\ locals' = frame
          /\ output' = compactReturn(frame, input.preserve)
    /\ pc' = "done"
    /\ UNCHANGED <<input, plans, plan_steps, assumptions, clock, sessions>>

\* lines 54 and 76-83: the loop condition fails and the function returns
CompactFitReturn ==
    /\ pc = "loop"
    /\ ~overTarget
    /\ output' = compactReturn(locals, input.preserve)
    /\ pc' = "done"
    /\ UNCHANGED <<input, locals, plans, plan_steps, assumptions, clock, sessions>>

NextCompact ==
    \/ CompactTrim
    \/ CompactDrop
    \/ CompactRelaxReturn
    \/ CompactFitReturn

\* the call runs to completion: a step that can be taken is taken
SpecCompact == InitCompact /\ [][NextCompact]_vars /\ WF_vars(NextCompact)

\* targetTokens * 4 of the call
RequestedChars ==
    4 * resolveTargetTokens(input.targetTokensGiven, input.targetTokens, input.policy)

\* C3: the compression loop terminates, and the returned compactState is
\* at most max(400, T) characters long, T being targetTokens * 4 when the
\* loop ended with the text within the target and floor(1.1 *
\* targetTokens * 4) when it ended by relaxing the target.
C3_CompactionTerminatesWithinBudget ==
    /\ <>(pc = "done")
    /\ [](pc = "done" =>
            /\ \/ /\ locals.targetChars = RequestedChars
                  /\ Len(locals.compactedText) <= RequestedChars
               \/ /\ locals.targetChars = (RequestedChars * 11) \div 10
                  /\ Len(locals.compactedText) > RequestedChars
            /\ Len(output.compactState) <= Max(400, locals.targetChars))

\* a call with the smallest budget whose loop trimmed sections, ended by
\* relaxing the target and returned a text cut to 400 characters
C3_Witness ==
    /\ pc = "done"
    /\ input.targetTokensGiven /\ input.targetTokens = 50
    /\ locals.targetChars = 220
    /\ Len(locals.droppedOrCompressed) >= 3
    /\ Len(locals.compactedText) > 400
    /\ Len(output.compactState) = 400

\* the label of the section `key`
labelOf(key) ==
    SectionTable[CHOOSE i \in 1..Len(SectionTable) : SectionTable[i].key = key].label

\* text holds `label: ` followed by at least one more character
ShowsSection(text, label) ==
    \E pattern \in {label \o LabelSeparator} :
        \E i \in 1..(Len(text) - Len(pattern)) :
            SubSeq(text, i, i + Len(pattern) - 1) = pattern

\* C10: for every section key listed in preserve, the returned compactState
\* still contains that section, its label followed by non-empty content: a
\* preserved section may be trimmed but is never dropped from the summary.
C10_PreservedSectionsKept ==
    pc = "done" =>
        \A key \in Range(input.preserve) :
            ShowsSection(output.compactState, labelOf(key))

\* ------------------------------------------------------------------------
\* reasoning/critic: runCriticReview
\* The sanitised subject text is [words, length, wordCount, sentenceCount]:
\* the set of vocabulary terms it contains, its length in characters, and
\* the counts that split(/\s+/) and split(/[.!?]/) give.  A regular
\* expression \b(w1|w2)\b or an includes(term) holds when one of its terms
\* is in `words`.  Scores are in tenths (6.5 is 65).  The issue and
\* recommendation strings of a finding are read by nothing and left out.
\* ------------------------------------------------------------------------

categoryLabels ==
    <<"correctness", "completeness", "risk", "testability", "simplicity",
      "maintainability">>

\* A weight is the double whole + tiny * 2^-1074, written [whole, tiny]: an
\* integer, or a multiple of the smallest positive double (a rubric value
\* is any number the schema's min(0).max(5) lets through, 5e-324 included).
\* One of the two parts is 0 in every weight a caller supplies.
Whole(n) == [whole |-> n, tiny |-> 0]

Tiny(k) == [whole |-> 0, tiny |-> k]

DEFAULT_WEIGHTS ==
    [correctness |-> Whole(5), completeness |-> Whole(4), risk |-> Whole(4),
     testability |-> Whole(3), simplicity |-> Whole(2),
     maintainability |-> Whole(3)]

clamp(value, min, max) == Min(max, Max(min, value))

matches(text, terms) == text.words \cap terms # {}

matchDelta(text, terms, delta) == IF matches(text, terms) THEN delta ELSE 0

scoreCorrectness(text) ==
    IF text.length = 0 THEN 20
    ELSE clamp(65
               + matchDelta(text, {"verified", "evidence", "deterministic",
                                   "consistent", "validated"}, 20)
               - matchDelta(text, {"maybe", "guess", "probably", "unclear", "unsure"}, 20)
               - (IF text.length < 120 THEN 15 ELSE 0)
               - matchDelta(text, {"contradict", "inconsistent"}, 20),
               0, 100)

CompletenessSignals ==
    {"goal", "constraint", "assumption", "risk", "verify", "next action", "plan step"}

scoreCompleteness(text) ==
    IF text.length = 0 THEN 15
    ELSE clamp(20 + 11 * Cardinality(text.words \cap CompletenessSignals)
               + (IF text.length > 800 THEN 10 ELSE 0)
               - (IF text.length < 100 THEN 15 ELSE 0),
               0, 100)

scoreRisk(text) ==
    clamp(40
          + matchDelta(text, {"risk", "blocker", "mitigation", "fallback", "failure"}, 30)
          + matchDelta(text, {"high-risk", "critical", "safety"}, 10)
          - matchDelta(text, {"ignore risk", "skip validation"}, 30),
          0, 100)

scoreTestability(text) ==
    clamp(30
          + matchDelta(text, {"test", "verify", "assert", "evidence", "checkpoint",
                              "acceptance"}, 40)
          + matchDelta(text, {"manual", "review", "logic-check"}, 15)
          - (IF ~matches(text, {"test", "verify", "check"}) THEN 20 ELSE 0),
          0, 100)

\* avgSentenceWords = words / (sentences || 1), compared by cross-multiplying
scoreSimplicity(text) ==
    LET words == text.wordCount
        sentences == IF text.sentenceCount = 0 THEN 1 ELSE text.sentenceCount
    IN clamp(80
             - (IF words > 28 * sentences THEN 30
                ELSE IF words > 20 * sentences THEN 15 ELSE 0)
             - (IF words > 900 THEN 20 ELSE 0)
             + matchDelta(text, {"simple", "minimal", "focused"}, 10),
             0, 100)

scoreMaintainability(text) ==
    clamp(40
          + matchDelta(text, {"modular", "schema", "stable", "typed", "repository",
                              "migration"}, 30)
          + matchDelta(text, {"document", "readme", "test"}, 20)
          - matchDelta(text, {"hack", "temporary", "quick fix"}, 20),
          0, 100)

\* clamp(value, 0, 5) of a weight: a multiple of 2^-1074 is below 5
clampWeight(value) ==
    IF value.whole # 0 THEN Whole(clamp(value.whole, 0, 5))
    ELSE Tiny(Max(0, value.tiny))

\* the sum of six weights none of which is negative: a sum that has a whole
\* part absorbs the multiples of 2^-1074, which are far below its half ulp
sumWeights(weights) ==
    LET whole == weights.correctness.whole + weights.completeness.whole
                 + weights.risk.whole + weights.testability.whole
                 + weights.simplicity.whole + weights.maintainability.whole
        tiny == weights.correctness.tiny + weights.completeness.tiny
                + weights.risk.tiny + weights.testability.tiny
                + weights.simplicity.tiny + weights.maintainability.tiny
    IN IF whole > 0 THEN Whole(whole) ELSE Tiny(tiny)

\* a rubric is a function from the categories it names to their weights;
\* an absent rubric and the empty rubric both leave the defaults
resolveWeights(rubric) ==
    LET resolved == [key \in DOMAIN DEFAULT_WEIGHTS |->
                        IF key \in DOMAIN rubric THEN clampWeight(rubric[key])
                        ELSE DEFAULT_WEIGHTS[key]]
    IN IF sumWeights(resolved) = Whole(0) THEN DEFAULT_WEIGHTS ELSE resolved

\* roundOne(numerator / denominator) in tenths, the numerator being in
\* tenths already.  Math.round rounds a half up, but the quotient is a
\* double: where the exact quotient lies halfway between two tenths its
\* representation error decides the direction, so tieUp is either value.
roundOneRatio(numerator, denominator, tieUp) ==
    IF (2 * numerator) % denominator = 0 /\ ((2 * numerator) \div denominator) % 2 = 1
    THEN (numerator \div denominator) + (IF tieUp THEN 1 ELSE 0)
    ELSE (2 * numerator + denominator) \div (2 * denominator)

\* score * weight for a weight of `units` times 2^-1074, in the same units
\* and the score in tenths: the product is a subnormal double, so it is
\* the multiple of 2^-1074 nearest to the exact product, the even one of
\* two equally near.  A score that is not a multiple of 0.5 is not the
\* double's exact value, and its error decides such a tie: tieUp is either.
timesSubnormal(score, units, tieUp) ==
    LET exact == score * units
        below == exact \div 10
    IN IF 2 * (exact % 10) < 10 THEN below
       ELSE IF 2 * (exact % 10) > 10 THEN below + 1
       ELSE IF score % 5 = 0 THEN (IF below % 2 = 0 THEN below ELSE below + 1)
       ELSE IF tieUp THEN below + 1 ELSE below

\* roundOne(sum of score * weight / sumWeights(weights)), in tenths.  With
\* a whole weight among them the products by multiples of 2^-1074 vanish
\* in the sum; with none, every product is rounded to a multiple of
\* 2^-1074 before the exact sum and the division.
weightedTotalOf(scores, weights, tieUp) ==
    LET product(key) == scores[key] * weights[key].whole
        subnormal(key) == timesSubnormal(scores[key], weights[key].tiny, tieUp)
        divisor == sumWeights(weights)
    IN IF divisor.whole > 0
       THEN roundOneRatio(product("correctness") + product("completeness")
                          + product("risk") + product("testability")
                          + product("simplicity") + product("maintainability"),
                          divisor.whole, tieUp)
       ELSE roundOneRatio(10 * (subnormal("correctness") + subnormal("completeness")
                                + subnormal("risk") + subnormal("testability")
                                + subnormal("simplicity")
                                + subnormal("maintainability")),
                          divisor.tiny, tieUp)

buildFindings(scores) ==
    LET finding(category) ==
            IF scores[category] >= 75 THEN <<>>
            ELSE <<[category |-> category,
                    severity |-> IF scores[category] <= 45 THEN "high"
                                 ELSE IF scores[category] <= 60 THEN "medium"
                                 ELSE "low"]>>
    IN Flatten([i \in 1..Len(categoryLabels) |-> finding(categoryLabels[i])])

highCorrectnessFailureMutant(scores) == scores.correctness < 50

highCorrectnessFailure(scores) == scores.correctness < 50 \/ scores.completeness < 50

resolveVerdict(scores, weightedTotal, findings) ==
    LET hardBlockers ==
            \E i \in 1..Len(findings) :
                /\ findings[i].severity = "high"
                /\ findings[i].category \in {"correctness", "completeness", "risk"}
    IN IF highCorrectnessFailure(scores) \/ hardBlockers THEN "reject"
       ELSE IF /\ weightedTotal >= 75
               /\ ~\E i \in 1..Len(findings) : findings[i].severity = "high"
            THEN "approve"
       ELSE "revise"

\* in = [text, rubric, policy, tieUp]; strengths and weaknesses are the category
\* names, their sentences being left out
runCriticReview(in) ==
    LET sourceText == in.text
        scores == [correctness |-> scoreCorrectness(sourceText),
                   completeness |-> scoreCompleteness(sourceText),
                   risk |-> scoreRisk(sourceText),
                   testability |-> scoreTestability(sourceText),
                   simplicity |-> scoreSimplicity(sourceText),
                   maintainability |-> scoreMaintainability(sourceText)]
        weights == resolveWeights(in.rubric)
        weightedTotal == weightedTotalOf(scores, weights, in.tieUp)
        findings == capItems(buildFindings(scores), Max(4, in.policy.maxFindings))
    IN [scores |-> scores,
        weightedTotal |-> weightedTotal,
        findings |-> findings,
        strengths |-> capItems(SelectSeq(categoryLabels,
                                         LAMBDA category : scores[category] >= 80),
                               in.policy.maxGenericItems),
        weaknesses |-> capItems(SelectSeq(categoryLabels,
                                          LAMBDA category : scores[category] <= 60),
                                in.policy.maxGenericItems),
        verdict |-> resolveVerdict(scores, weightedTotal, findings)]

\* ------------------------------------------------------------------------
\* Specification SpecCritic: critic_review applied to bounded subjects
\* ------------------------------------------------------------------------

\* The subject's vocabulary, by phrase; a subject contains any set of them.
\* No term of one phrase is a substring of a term of another.
CriticPhrases ==
    { {"verified", "evidence"}, {"maybe"}, {"contradict"},
      {"goal", "constraint", "assumption"}, {"risk", "mitigation"},
      {"verify", "test"}, {"next action", "plan step"}, {"critical"},
      {"skip validation"}, {"manual"}, {"modular", "document"}, {"hack"} }

\* length, words and sentences of the sanitised subject (at most 1500
\* characters in small mode)
CriticShapes ==
    { [length |-> 0, wordCount |-> 0, sentenceCount |-> 0],
      [length |-> 90, wordCount |-> 15, sentenceCount |-> 1],
      [length |-> 110, wordCount |-> 22, sentenceCount |-> 1],
      [length |-> 400, wordCount |-> 60, sentenceCount |-> 4],
      [length |-> 1400, wordCount |-> 240, sentenceCount |-> 8] }

CriticRubrics ==
    { <<>>,
      [key \in DOMAIN DEFAULT_WEIGHTS |-> Whole(0)],
      [key \in {"simplicity", "maintainability"} |-> Whole(5)],
      [key \in DOMAIN DEFAULT_WEIGHTS |->
          IF key \in {"simplicity", "testability"} THEN Whole(5) ELSE Whole(0)] }

CriticTexts ==
    { [words |-> IF shape.length = 0 THEN {} ELSE UNION phrases,
       length |-> shape.length,
       wordCount |-> shape.wordCount,
       sentenceCount |-> shape.sentenceCount] :
         phrases \in SUBSET CriticPhrases, shape \in CriticShapes }

InitCritic ==
    /\ pc = "ready"
    /\ input \in [text : CriticTexts, rubric : CriticRubrics]
    /\ locals = Null
    /\ output = Null
    /\ plans = <<>>
    /\ plan_steps = <<>>
    /\ assumptions = <<>>
    /\ clock = 0
    /\ sessions = {}

CriticReviewCall ==
    /\ pc = "ready"
    /\ \E tieUp \in BOOLEAN :
          output' = runCriticReview([text |-> input.text, rubric |-> input.rubric,
                                     policy |-> POLICY_BY_MODE["small"],
                                     tieUp |-> tieUp])
    /\ pc' = "done"
    /\ UNCHANGED <<input, locals, plans, plan_steps, assumptions, clock, sessions>>

NextCritic == CriticReviewCall

SpecCritic == InitCritic /\ [][NextCritic]_vars

HighFinding(categories) ==
    \E i \in 1..Len(output.findings) :
        /\ output.findings[i].severity = "high"
        /\ output.findings[i].category \in categories

\* C4: the verdict is reject when correctness or completeness is below 5 or
\* a finding on correctness, completeness or risk is high; otherwise approve
\* when the weighted total is at least 7.5 and no finding is high; otherwise
\* revise.  A subject with correctness below 5 is rejected whatever its
\* completeness, and one with all six categories at 8 or more is approved.
C4_VerdictRule ==
    pc = "done" =>
        /\ output.verdict =
              IF \/ output.scores.correctness < 50
                 \/ output.scores.completeness < 50
                 \/ HighFinding({"correctness", "completeness", "risk"})
              THEN "reject"
              ELSE IF output.weightedTotal >= 75
                      /\ ~HighFinding({output.findings[i].category :
                                          i \in 1..Len(output.findings)})
                   THEN "approve"
              ELSE "revise"
        /\ (output.scores.correctness < 50 /\ output.scores.completeness >= 90)
              => output.verdict = "reject"
        /\ (\A i \in 1..Len(categoryLabels) : output.scores[categoryLabels[i]] >= 80)
              => output.verdict = "approve"

C4_Witness ==
    /\ pc = "done"
    /\ output.scores.correctness >= 50
    /\ output.scores.completeness < 50
    /\ output.scores.risk > 45
    /\ ~HighFinding({"correctness", "completeness", "risk"})
    /\ output.verdict = "reject"

\* ------------------------------------------------------------------------
\* storage/repositories/plans: PlansRepository
\* plans and plan_steps are the tables, rows in insertion order.  A step id
\* is the number n of step_n, a plan id the number of the fresh plan_<uuid>.
\* clock is the instant nowIso() reads: successive calls may read the same.
\* ------------------------------------------------------------------------

Sessions == {"s1", "s2"}

\* ORDER BY orderIndex ASC: the rows by ascending orderIndex, rows of equal
\* orderIndex in table order
orderByOrderIndex(rows) ==
    LET before(j, i) ==
            \/ rows[j].orderIndex < rows[i].orderIndex
            \/ rows[j].orderIndex = rows[i].orderIndex /\ j < i
        rank(i) == Cardinality({j \in 1..Len(rows) : before(j, i)}) + 1
    IN [k \in 1..Len(rows) |-> rows[CHOOSE i \in 1..Len(rows) : rank(i) = k]]

listStepsBySession(rows, sessionId) ==
    orderByOrderIndex(SelectSeq(rows, LAMBDA row : row.sessionId = sessionId))

\* ORDER BY createdAt DESC LIMIT 1: any row of the session with the latest
\* createdAt; none when the session has no plan
getLatestPlan(rows, sessionId) ==
    LET own == {i \in 1..Len(rows) : rows[i].sessionId = sessionId}
    IN {rows[i] : i \in {k \in own : \A j \in own : rows[j].createdAt <= rows[k].createdAt}}

deleteStepsMutant(rows, sessionId) == rows

\* DELETE FROM plan_steps WHERE sessionId = ?
deleteSteps(rows, sessionId) == SelectSeq(rows, LAMBDA row : row.sessionId # sessionId)

insertSteps(in, timestamp) ==
    [i \in 1..Len(in.steps) |->
        [stepId |-> in.steps[i].stepId,
         planId |-> in.planId,
         sessionId |-> in.sessionId,
         orderIndex |-> in.steps[i].orderIndex,
         title |-> in.steps[i].title,
         status |-> in.steps[i].status,
         note |-> Null,
         updatedAt |-> timestamp]]

\* UPDATE plan_steps SET status, note = COALESCE(@note, note), updatedAt
\* WHERE sessionId = @sessionId AND stepId = @stepId
updateStepMutant(rows, sessionId, update, timestamp) ==
    [i \in 1..Len(rows) |->
        IF rows[i].sessionId = sessionId /\ rows[i].stepId = update.stepId
        THEN [rows[i] EXCEPT !.status = update.status,
                             !.note = update.note,
                             !.updatedAt = timestamp]
        ELSE rows[i]]

updateStep(rows, sessionId, update, timestamp) ==
    [i \in 1..Len(rows) |->
        IF rows[i].sessionId = sessionId /\ rows[i].stepId = update.stepId
        THEN [rows[i] EXCEPT !.status = update.status,
                             !.note = IF update.note = Null THEN @ ELSE update.note,
                             !.updatedAt = timestamp]
        ELSE rows[i]]

stepChanges(rows, sessionId, update) ==
    Cardinality({i \in 1..Len(rows) :
                    rows[i].sessionId = sessionId /\ rows[i].stepId = update.stepId})

RECURSIVE runUpdates(_, _, _, _)
runUpdates(rows, sessionId, updates, timestamp) ==
    IF updates = <<>> THEN [rows |-> rows, changed |-> 0]
    ELSE LET rest == runUpdates(updateStep(rows, sessionId, Head(updates), timestamp),
                                sessionId, Tail(updates), timestamp)
         IN [rows |-> rest.rows,
             changed |-> stepChanges(rows, sessionId, Head(updates)) + rest.changed]

\* ------------------------------------------------------------------------
\* Specification SpecPlanStore: build_plan and update_plan_status on two
\* sessions.  input[s] is the argument of the latest createPlanWithSteps
\* for session s.  What a call returns is read back from the tables with
\* getLatestPlan and listStepsBySession and is not kept.
\* ------------------------------------------------------------------------

MaxPlans == 3
MaxStoreSteps == 2
MaxClock == 1

\* the steps of a call: ids and order indexes 1..n, passed in ascending
\* order under one title or in descending order under another, every
\* status pending as build_plan passes them
StoreStepLists ==
    UNION { { [i \in 1..n |->
                 [stepId |-> IF reversed THEN n + 1 - i ELSE i,
                  orderIndex |-> IF reversed THEN n + 1 - i ELSE i,
                  title |-> IF reversed THEN "t2" ELSE "t1",
                  status |-> "pending"]] :
              reversed \in {r \in BOOLEAN : r => n > 1} } :
            n \in 0..MaxStoreSteps }

\* the second list ends with a step no plan has
StoreUpdateLists ==
    { <<[stepId |-> 1, status |-> "done", note |-> [text |-> "n"]]>>,
      <<[stepId |-> 2, status |-> "blocked", note |-> Null],
        [stepId |-> MaxStoreSteps + 2, status |-> "done", note |-> Null]>> }

InitPlanStore ==
    /\ pc = "idle"
    /\ input = [s \in Sessions |-> Null]
    /\ locals = Null
    /\ output = Null
    /\ plans = <<>>
    /\ plan_steps = <<>>
    /\ assumptions = <<>>
    /\ clock = 0
    /\ sessions = {}

Tick ==
    /\ clock < MaxClock
    /\ clock' = clock + 1
    /\ UNCHANGED <<pc, input, locals, output, plans, plan_steps, assumptions, sessions>>

createPlanWithSteps(sessionId, steps) ==
    /\ Len(plans) < MaxPlans
    /\ LET in == [planId |-> Len(plans) + 1, sessionId |-> sessionId, steps |-> steps]
           timestamp == clock
       IN /\ plans' = Append(plans, [id |-> in.planId, sessionId |-> sessionId,
                                     createdAt |-> timestamp, updatedAt |-> timestamp])
          /\ plan_steps' = deleteSteps(plan_steps, sessionId) \o insertSteps(in, timestamp)
          /\ input' = [input EXCEPT ![sessionId] = in]
    /\ UNCHANGED <<pc, locals, output, assumptions, clock, sessions>>

updateStatuses(sessionId, updates) ==
    /\ LET timestamp == clock
           result == runUpdates(plan_steps, sessionId, updates, timestamp)
       IN /\ plan_steps' = result.rows
          /\ plans' = IF result.changed > 0
                      THEN [i \in 1..Len(plans) |->
                              IF plans[i].sessionId = sessionId
                              THEN [plans[i] EXCEPT !.updatedAt = timestamp]
                              ELSE plans[i]]
                      ELSE plans
    /\ UNCHANGED <<pc, input, locals, output, assumptions, clock, sessions>>

NextPlanStore ==
    \/ Tick
    \/ \E sessionId \in Sessions, steps \in StoreStepLists :
          createPlanWithSteps(sessionId, steps)
    \/ \E sessionId \in Sessions, updates \in StoreUpdateLists :
          updateStatuses(sessionId, updates)

SpecPlanStore == InitPlanStore /\ [][NextPlanStore]_vars

\* what a step is apart from its status, note and timestamps
StepIdentity(step) ==
    [stepId |-> step.stepId, orderIndex |-> step.orderIndex, title |-> step.title]

ListedSteps(sessionId) == listStepsBySession(plan_steps, sessionId)

ListedMatchesLatestCall(sessionId) ==
    LET listed == ListedSteps(sessionId)
        passed == IF input[sessionId] = Null THEN <<>> ELSE input[sessionId].steps
    IN /\ Len(listed) = Len(passed)
       /\ {StepIdentity(listed[i]) : i \in 1..Len(listed)}
            = {StepIdentity(passed[i]) : i \in 1..Len(passed)}
       /\ \A i \in 1..Len(listed) : listed[i].planId = input[sessionId].planId
       /\ \A i, j \in 1..Len(listed) :
             i < j => listed[i].orderIndex < listed[j].orderIndex

\* a step that adds a plan for one session leaves the other's listing alone
OtherSessionsUntouched ==
    \A sessionId \in Sessions :
        (Len(plans') > Len(plans) /\ plans'[Len(plans')].sessionId # sessionId)
            => ListedSteps(sessionId)' = ListedSteps(sessionId)

\* C5: after any sequence of createPlanWithSteps and updateStatuses calls the
\* steps listed for a session are those of its latest createPlanWithSteps,
\* by ascending orderIndex, all with that call's planId and none of an
\* earlier plan; a call for one session leaves the steps listed for the
\* other session as they were.
C5_StepsAreThoseOfLatestPlan ==
    /\ [](\A sessionId \in Sessions : ListedMatchesLatestCall(sessionId))
    /\ [][OtherSessionsUntouched]_vars

C5_Witness ==
    /\ Len(plans) = 3
    /\ plans[1].sessionId = "s1"
    /\ plans[2].sessionId = "s2"
    /\ plans[3].sessionId = "s1"
    /\ Len(ListedSteps("s1")) = 2
    /\ ListedSteps("s1")[1].planId = 3
    /\ Len(ListedSteps("s2")) = 2
    /\ ListedSteps("s1")[1].title # ListedSteps("s2")[1].title
    /\ ListedSteps("s2")[1].status = "done"
    /\ input["s1"].steps[1].orderIndex = 2

\* ------------------------------------------------------------------------
\* storage/repositories/assumptions: AssumptionsRepository
\* assumptions is the table, rows in insertion order, with the unique index
\* on (sessionId, normalizedHash) that the ON CONFLICT clause names.  The
\* type, category, risk and evidenceNeededJson columns are written wherever
\* text and confidence are and are left out.  An assumption id is the
\* number of the fresh assumption_<uuid>.
\* ------------------------------------------------------------------------

toLowerCase(text) == [i \in 1..Len(text) |-> IF text[i] = "A" THEN "a" ELSE text[i]]

WordChars == {"A", "a", "b"}

\* text.replace(/[^\w\s]/g, "")
stripPunctuation(text) ==
    SelectSeq(text, LAMBDA char : char \in WordChars \cup Whitespace)

normalizeAssumptionText(text) ==
    normalizeWhitespace(stripPunctuation(toLowerCase(text)))

\* SHA-256, taken to be free of collisions: the digest stands for its input
stableHash(text) == text

rowIndex(rows, sessionId, normalizedHash) ==
    {i \in 1..Len(rows) :
        rows[i].sessionId = sessionId /\ rows[i].normalizedHash = normalizedHash}

upsertConflictMutant(rows, assumption) == {}

\* the rows an insert of the assumption conflicts with
upsertConflict(rows, assumption) ==
    rowIndex(rows, assumption.sessionId, assumption.normalizedHash)

\* INSERT ... ON CONFLICT(sessionId, normalizedHash) DO UPDATE SET ...
upsert(rows, assumption, timestamp) ==
    IF upsertConflict(rows, assumption) = {}
    THEN Append(rows, [assumptionId |-> assumption.assumptionId,
                       sessionId |-> assumption.sessionId,
                       text |-> assumption.text,
                       normalizedHash |-> assumption.normalizedHash,
                       status |-> "unverified",
                       confidence |-> Null,
                       updatedAt |-> timestamp])
    ELSE [i \in 1..Len(rows) |->
            IF i \in upsertConflict(rows, assumption)
            THEN [rows[i] EXCEPT !.text = assumption.text,
                                 !.status = "unverified",
                                 !.confidence = Null,
                                 !.updatedAt = timestamp]
            ELSE rows[i]]

RECURSIVE upsertAll(_, _, _)
upsertAll(rows, list, timestamp) ==
    IF list = <<>> THEN rows
    ELSE upsertAll(upsert(rows, Head(list), timestamp), Tail(list), timestamp)

\* the record selected after each insert, as the table stood at that point
RECURSIVE upsertRecords(_, _, _)
upsertRecords(rows, list, timestamp) ==
    IF list = <<>> THEN <<>>
    ELSE LET next == upsert(rows, Head(list), timestamp)
             found == rowIndex(next, Head(list).sessionId, Head(list).normalizedHash)
         IN [i \in 1..Cardinality(found) |-> next[CHOOSE k \in found : TRUE]]
            \o upsertRecords(next, Tail(list), timestamp)

\* UPDATE assumptions SET status, confidence, ... WHERE sessionId = ? AND
\* (assumptionId = ? | normalizedHash = ?)
updateAssumption(rows, sessionId, update, timestamp) ==
    [i \in 1..Len(rows) |->
        IF /\ rows[i].sessionId = sessionId
           /\ IF update.assumptionId # 0
              THEN rows[i].assumptionId = update.assumptionId
              ELSE rows[i].normalizedHash = update.normalizedHash
        THEN [rows[i] EXCEPT !.status = update.status,
                             !.confidence = update.confidence,
                             !.updatedAt = timestamp]
        ELSE rows[i]]

RECURSIVE updateAllAssumptions(_, _, _, _)
updateAllAssumptions(rows, sessionId, updates, timestamp) ==
    IF updates = <<>> THEN rows
    ELSE updateAllAssumptions(updateAssumption(rows, sessionId, Head(updates), timestamp),
                              sessionId, Tail(updates), timestamp)

countBySession(rows, sessionId) ==
    Cardinality({i \in 1..Len(rows) : rows[i].sessionId = sessionId})

\* ------------------------------------------------------------------------
\* Specification SpecAssumptionStore: list_assumptions and assumption_check
\* writing to the table for two sessions.  What upsertMany returns is read
\* with upsertRecords and is not kept.
\* ------------------------------------------------------------------------

\* "Ab" and "ab!" normalise to the same text, "b a" to another
AssumptionTexts == { <<"A", "b">>, <<"a", "b", "!">>, <<"b", " ", "a">> }

AssumptionTextLists ==
    { <<text>> : text \in AssumptionTexts }
    \cup { <<<<"A", "b">>, <<"a", "b", "!">>>>, <<<<"b", " ", "a">>, <<"A", "b">>>> }

\* an update names its record by id, or by hash under the id 0
AssumptionUpdateLists ==
    { <<[assumptionId |-> 1, normalizedHash |-> <<>>, status |-> "verified",
         confidence |-> "high"]>>,
      <<[assumptionId |-> 0, normalizedHash |-> stableHash(<<"a", "b">>),
         status |-> "risky", confidence |-> "low"]>> }

maxAssumptionId(rows) ==
    IF rows = <<>> THEN 0
    ELSE CHOOSE id \in {rows[i].assumptionId : i \in 1..Len(rows)} :
            \A i \in 1..Len(rows) : rows[i].assumptionId <= id

InitAssumptionStore ==
    /\ pc = "idle"
    /\ input = Null
    /\ locals = Null
    /\ output = Null
    /\ plans = <<>>
    /\ plan_steps = <<>>
    /\ assumptions = <<>>
    /\ clock = 0
    /\ sessions = {}

upsertMany(sessionId, texts) ==
    /\ LET list == [i \in 1..Len(texts) |->
                      [assumptionId |-> maxAssumptionId(assumptions) + i,
                       sessionId |-> sessionId,
                       text |-> texts[i],
                       normalizedHash |-> stableHash(normalizeAssumptionText(texts[i]))]]
           timestamp == clock
       IN /\ assumptions' = upsertAll(assumptions, list, timestamp)
    /\ UNCHANGED <<pc, input, locals, output, plans, plan_steps, clock, sessions>>

updateAssumptionStatuses(sessionId, updates) ==
    /\ assumptions' = updateAllAssumptions(assumptions, sessionId, updates, clock)
    /\ UNCHANGED <<pc, input, locals, output, plans, plan_steps, clock, sessions>>

NextAssumptionStore ==
    \/ Tick
    \/ \E sessionId \in Sessions, texts \in AssumptionTextLists :
          upsertMany(sessionId, texts)
    \/ \E sessionId \in Sessions, updates \in AssumptionUpdateLists :
          updateAssumptionStatuses(sessionId, updates)

SpecAssumptionStore == InitAssumptionStore /\ [][NextAssumptionStore]_vars

OneRecordPerHash ==
    \A i, j \in 1..Len(assumptions) :
        (/\ assumptions[i].sessionId = assumptions[j].sessionId
         /\ assumptions[i].normalizedHash = assumptions[j].normalizedHash) => i = j

KeysOf(rows, sessionId) ==
    {rows[i].normalizedHash : i \in {k \in 1..Len(rows) : rows[k].sessionId = sessionId}}

UpsertGrowsByNewKeysOnly ==
    \A sessionId \in Sessions :
        /\ KeysOf(assumptions, sessionId) \subseteq KeysOf(assumptions', sessionId)
        /\ countBySession(assumptions', sessionId) =
              countBySession(assumptions, sessionId)
              + Cardinality(KeysOf(assumptions', sessionId) \ KeysOf(assumptions, sessionId))

\* C6: after any sequence of upsertMany and updateStatuses calls the table
\* holds at most one record per (sessionId, normalizedHash); an upsert of a
\* key the session already has updates that record, so the session's record
\* count grows only by the keys that are new to it.
C6_OneAssumptionPerSessionHash ==
    /\ []OneRecordPerHash
    /\ [][UpsertGrowsByNewKeysOnly]_vars

\* the first record of the table was upserted again under another text, in
\* a later millisecond than the insert of the second record, which another
\* session holds under the same hash
C6_Witness ==
    /\ Len(assumptions) = 3
    /\ assumptions[1].text = <<"a", "b", "!">>
    /\ assumptions[1].status = "unverified"
    /\ assumptions[1].updatedAt = 1
    /\ assumptions[2].updatedAt = 0
    /\ assumptions[2].status = "risky"
    /\ assumptions[2].sessionId # assumptions[1].sessionId
    /\ assumptions[2].normalizedHash = assumptions[1].normalizedHash
    /\ assumptions[3].sessionId = assumptions[1].sessionId

\* ------------------------------------------------------------------------
\* reasoning/decompose: decomposeTask
\* A template item is its title; the task type is the one detectTaskType
\* gives for the task; the titles are shorter than every character cap.
\* ------------------------------------------------------------------------

TEMPLATES ==
    [coding |-> <<"Clarify implementation scope", "Map existing system boundaries",
                  "Design deterministic solution", "Implement incremental changes",
                  "Run verification workflow", "Document outcomes and next actions">>,
     debugging |-> <<"Define failure signature", "Collect diagnostic evidence",
                     "Identify root cause", "Implement fix with safeguards",
                     "Verify fix and regressions">>,
     architecture |-> <<"Define architecture goals", "Model solution components",
                        "Analyze tradeoffs and risks",
                        "Define rollout and verification plan">>,
     planning |-> <<"Scope objective and boundaries", "Break work into milestones",
                    "Assign verification checkpoints", "Define monitoring and fallback">>,
     analysis |-> <<"Collect relevant inputs", "Evaluate competing explanations",
                    "Assess risk and confidence", "Produce recommendations">>,
     mixed |-> <<"Clarify objective and inputs", "Decompose into executable tracks",
                 "Sequence dependencies", "Validate and consolidate outputs">>]

TaskTypes == DOMAIN TEMPLATES

subtaskId(index) == index + 1

applyDependenciesMutant(i, n, mode) ==
    IF mode = "tree" /\ i = 0 /\ n > 2 THEN <<subtaskId(n - 1)>>
    ELSE IF i = 0 THEN <<>>
    ELSE <<subtaskId(i - 1)>>

\* applyDependencies; i is the 0-based index of the subtask, n the count
applyDependencies(i, n, mode) ==
    IF i = 0 THEN <<>>
    ELSE IF mode = "linear" \/ n <= 2 THEN <<subtaskId(i - 1)>>
    ELSE IF mode = "tree"
         THEN IF i < n - 1 THEN <<subtaskId(0)>>
              ELSE [k \in 1..(n - 2) |-> subtaskId(k)]
    ELSE IF i % 2 = 0 THEN <<subtaskId(i - 1)>>
    ELSE <<subtaskId(Max(0, i - 2))>>

\* bestPathById after the loop of lines 313-319 has handled the first k
\* subtasks, as the sequence of their paths: a dependency contributes the
\* path it has by then, and of the longest ones the stable sort puts the
\* first in dependsOn order in front
RECURSIVE bestPaths(_, _)
bestPaths(subtasks, k) ==
    IF k = 0 THEN <<>>
    ELSE LET earlier == bestPaths(subtasks, k - 1)
             dependsOn == subtasks[k].dependsOn
             known == SelectSeq(dependsOn,
                        LAMBDA depId :
                            \E i \in 1..(k - 1) : subtasks[i].id = depId)
             predecessorPaths ==
                 [d \in 1..Len(known) |-> earlier[indexById(subtasks, known[d]) + 1]]
             bestPredecessor ==
                 IF predecessorPaths = <<>> THEN <<>>
                 ELSE predecessorPaths[
                        CHOOSE d \in 1..Len(predecessorPaths) :
                            /\ \A e \in 1..Len(predecessorPaths) :
                                  Len(predecessorPaths[e]) <= Len(predecessorPaths[d])
                            /\ \A e \in 1..(d - 1) :
                                  Len(predecessorPaths[e]) < Len(predecessorPaths[d])]
         IN Append(earlier, bestPredecessor \o <<subtasks[k].id>>)

\* b.length - a.length, then lastA - lastB: is path a sorted before path b
pathBefore(subtasks, a, b) ==
    \/ Len(a) > Len(b)
    \/ /\ Len(a) = Len(b)
       /\ indexById(subtasks, a[Len(a)]) < indexById(subtasks, b[Len(b)])

\* the subtasks have distinct ids, so every path has its own last element
\* and the comparator orders the paths totally
computeCriticalPath(subtasks) ==
    IF Len(subtasks) = 0 THEN <<>>
    ELSE With(bestPaths(subtasks, Len(subtasks)),
              LAMBDA allPaths :
                 allPaths[CHOOSE i \in 1..Len(allPaths) :
                            \A j \in 1..Len(allPaths) \ {i} :
                                pathBefore(subtasks, allPaths[i], allPaths[j])])

\* subtasks with their dependencies applied
withDependencies(capped, mode) ==
    [i \in 1..Len(capped) |->
        [id |-> subtaskId(i - 1),
         title |-> capped[i],
         dependsOn |-> applyDependencies(i - 1, Len(capped), mode)]]

decomposeTask(in) ==
    LET base == TEMPLATES[in.taskType]
        template == IF in.constraintCount >= 4
                    THEN SubSeq(base, 1, Len(base) - 1)
                         \o <<"Validate constraint satisfaction">>
                         \o <<base[Len(base)]>>
                    ELSE base
        capped == capItems(template, in.policy.maxSubtasks)
    IN [decompositionMode |-> in.mode,
        subtasks |-> withDependencies(capped, in.mode),
        criticalPath |-> computeCriticalPath(withDependencies(capped, in.mode))]

\* ------------------------------------------------------------------------
\* reasoning/analyze: analyzeTask, its unknowns, implicit assumptions and
\* risks.  The task is [words, length, question]: the terms it contains,
\* its length and whether it holds a question mark; taskType is the one
\* detectTaskType gives and constraintCount the length of the extracted
\* constraints.  A risk's opaque id is left out.
\* ------------------------------------------------------------------------

extractUnknowns(task, taskType, context, policy) ==
    LET unknowns ==
          (IF ~context.environment
           THEN <<"Target environment details are missing.">> ELSE <<>>)
          \o (IF ~context.domain /\ taskType \in {"architecture", "analysis"}
              THEN <<"Domain-specific requirements are not provided.">> ELSE <<>>)
          \o (IF ~context.existingPlan /\ taskType \in {"planning", "mixed"}
              THEN <<"No baseline plan was provided.">> ELSE <<>>)
          \o (IF task.question
              THEN <<"Task contains unresolved questions.">> ELSE <<>>)
          \o (IF matches(task, {"tbd", "tba", "unknown", "unspecified"})
              THEN <<"Task includes unresolved placeholders.">> ELSE <<>>)
          \o (IF ~matches(task, {"success", "acceptance", "done", "definition of done"})
              THEN <<"Explicit acceptance criteria are not stated.">> ELSE <<>>)
    IN capItems(Dedupe(unknowns), policy.maxUnknowns)

extractImplicitAssumptions(task, taskType, context, policy) ==
    LET found ==
          (IF ~context.environment
           THEN <<"Execution environment has required runtime and dependencies.">>
           ELSE <<>>)
          \o (IF matches(task, {"docker"})
              THEN <<"Container runtime is available and image builds are permitted.">>
              ELSE <<>>)
          \o (IF matches(task, {"mcp"})
              THEN <<"MCP clients support Streamable HTTP and tool schemas used.">>
              ELSE <<>>)
          \o (IF matches(task, {"sqlite"})
              THEN <<"SQLite file path is writable and persistent across restarts.">>
              ELSE <<>>)
          \o (IF taskType = "debugging"
              THEN <<"Observed issue can be reproduced consistently.">> ELSE <<>>)
          \o (IF taskType = "coding"
              THEN <<"Existing codebase conventions should be preserved.">> ELSE <<>>)
    IN capItems(Dedupe(found), policy.maxGenericItems)

extractRisks(task, constraintCount, unknowns, assumptionList, policy) ==
    LET riskItems ==
          (IF task.length > 1800
           THEN <<[text |-> "Task scope is large and may require phased execution.",
                   severity |-> "high"]>> ELSE <<>>)
          \o (IF Len(unknowns) >= 4
              THEN <<[text |-> "High uncertainty due to missing task details.",
                      severity |-> "high"]>> ELSE <<>>)
          \o (IF constraintCount >= 5
              THEN <<[text |-> "Many constraints increase risk of conflicting requirements.",
                      severity |-> "medium"]>> ELSE <<>>)
          \o (IF Len(assumptionList) >= 4
              THEN <<[text |-> "Execution depends on multiple unverified assumptions.",
                      severity |-> "medium"]>> ELSE <<>>)
          \o (IF matches(task, {"production", "security", "auth", "migration", "payment"})
              THEN <<[text |-> "Task appears high-impact and requires stricter validation gates.",
                      severity |-> "high"]>> ELSE <<>>)
          \o (IF matches(task, {"deadline", "urgent", "asap", "quickly"})
              THEN <<[text |-> "Time pressure may reduce verification depth and increase defects.",
                      severity |-> "medium"]>> ELSE <<>>)
        orDefault == IF riskItems = <<>>
                     THEN <<[text |-> "No critical risks detected from current input.",
                             severity |-> "low"]>>
                     ELSE riskItems
    IN capItems(Dedupe(orDefault), policy.maxRisks)

analyzeTask(in) ==
    LET unknowns == extractUnknowns(in.task, in.taskType, in.context, in.policy)
        assumptionsImplicit ==
            extractImplicitAssumptions(in.task, in.taskType, in.context, in.policy)
        risks == extractRisks(in.task, in.constraintCount, unknowns, assumptionsImplicit,
                              in.policy)
    IN [taskType |-> in.taskType,
        assumptionsImplicit |-> assumptionsImplicit,
        unknowns |-> unknowns,
        risks |-> risks,
        clarificationsNeeded |-> capItems(unknowns, in.policy.maxGenericItems)]

\* ------------------------------------------------------------------------
\* reasoning/nextAction: selectNextBestAction
\* A title is [text, stepId], the fixed wording and the step id inserted in
\* it (0 for none); reason, tradeoff and prerequisites are left out.
\* ------------------------------------------------------------------------

NoTarget == [none |-> TRUE]

preferenceBoostMutant(preference, type) ==
    LET matrix ==
          [progress |-> [t \in {"execute-step", "resolve-blocker"} |->
                            IF t = "execute-step" THEN 8 ELSE 6],
           safety |-> [t \in {"verify-assumption", "gather-evidence", "run-review"} |->
                          IF t = "verify-assumption" THEN 6
                          ELSE IF t = "gather-evidence" THEN 8 ELSE 6],
           validation |-> [t \in {"run-review", "verify-assumption"} |->
                              IF t = "run-review" THEN 10 ELSE 6],
           unblock |-> [t \in {"resolve-blocker", "revise-plan"} |->
                           IF t = "resolve-blocker" THEN 12 ELSE 6]]
    IN IF type \in DOMAIN matrix[preference] THEN matrix[preference][type] ELSE 0

preferenceBoost(preference, type) ==
    LET matrix ==
          [progress |-> [t \in {"execute-step", "resolve-blocker"} |->
                            IF t = "execute-step" THEN 8 ELSE 6],
           safety |-> [t \in {"verify-assumption", "gather-evidence", "run-review"} |->
                          IF t = "verify-assumption" THEN 10
                          ELSE IF t = "gather-evidence" THEN 8 ELSE 6],
           validation |-> [t \in {"run-review", "verify-assumption"} |->
                              IF t = "run-review" THEN 10 ELSE 6],
           unblock |-> [t \in {"resolve-blocker", "revise-plan"} |->
                           IF t = "resolve-blocker" THEN 12 ELSE 6]]
    IN IF type \in DOMAIN matrix[preference] THEN matrix[preference][type] ELSE 0

dedupeCandidatesMutant(candidates) ==
    SelectSeq([i \in 1..Len(candidates) |-> [at |-> i, item |-> candidates[i]]],
              LAMBDA p : p.item.type # "run-review")

dedupeCandidates(candidates) ==
    SelectSeq([i \in 1..Len(candidates) |-> [at |-> i, item |-> candidates[i]]],
              LAMBDA p : \A j \in 1..(p.at - 1) :
                  \/ candidates[j].type # p.item.type
                  \/ candidates[j].targetStepId # p.item.targetStepId)

buildCandidates(in) ==
    LET blockedSteps == SelectSeq(in.planSteps, LAMBDA step : step.status = "blocked")
        inProgress == SelectSeq(in.planSteps, LAMBDA step : step.status = "in_progress")
        pending == SelectSeq(in.planSteps, LAMBDA step : step.status = "pending")
        riskyAssumptions ==
            SelectSeq(in.assumptions,
                      LAMBDA item : item.status \in {"risky", "contradicted"})
        highRiskUnverified ==
            SelectSeq(in.assumptions,
                      LAMBDA item : item.status # "verified" /\ item.risk = "high")
        recentResults == SelectSeq(in.decisionLogs, LAMBDA log : log.kind = "result")
        candidates ==
          (IF Len(blockedSteps) > 0 \/ in.blockers > 0
           THEN <<[type |-> "resolve-blocker",
                   title |-> IF Len(blockedSteps) > 0
                             THEN [text |-> "Resolve blocker on",
                                   stepId |-> blockedSteps[1].stepId]
                             ELSE [text |-> "Resolve active blocker from current context",
                                   stepId |-> 0],
                   score |-> 92 + preferenceBoost(in.preference, "resolve-blocker"),
                   targetStepId |-> IF Len(blockedSteps) > 0
                                    THEN [step |-> blockedSteps[1].stepId]
                                    ELSE NoTarget]>>
           ELSE <<>>)
          \o (IF Len(riskyAssumptions) > 0 \/ Len(highRiskUnverified) > 0
              THEN <<[type |-> "verify-assumption",
                      title |-> [text |-> "Verify highest-risk assumption", stepId |-> 0],
                      score |-> 84 + preferenceBoost(in.preference, "verify-assumption"),
                      targetStepId |->
                          [assumption |->
                              (riskyAssumptions \o highRiskUnverified)[1].assumptionId]]>>
              ELSE <<>>)
          \o (IF Len(inProgress) > 0
              THEN <<[type |-> "execute-step",
                      title |-> [text |-> "Advance current in-progress step",
                                 stepId |-> inProgress[1].stepId],
                      score |-> 80 + preferenceBoost(in.preference, "execute-step"),
                      targetStepId |-> [step |-> inProgress[1].stepId]]>>
              ELSE IF Len(pending) > 0
              THEN <<[type |-> "execute-step",
                      title |-> [text |-> "Start next pending step",
                                 stepId |-> pending[1].stepId],
                      score |-> 74 + preferenceBoost(in.preference, "execute-step"),
                      targetStepId |-> [step |-> pending[1].stepId]]>>
              ELSE <<>>)
          \o (IF Len(recentResults) = 0 \/ in.openRisks > 0
              THEN <<[type |-> "gather-evidence",
                      title |-> [text |-> "Gather supporting evidence for current state",
                                 stepId |-> 0],
                      score |-> 72 + preferenceBoost(in.preference, "gather-evidence"),
                      targetStepId |-> NoTarget]>>
              ELSE <<>>)
          \o (IF \E i \in 1..Len(in.planSteps) :
                    in.planSteps[i].status \in {"blocked", "skipped"}
              THEN <<[type |-> "revise-plan",
                      title |-> [text |-> "Revise plan for blocked/skipped path",
                                 stepId |-> 0],
                      score |-> 76 + preferenceBoost(in.preference, "revise-plan"),
                      targetStepId |-> NoTarget]>>
              ELSE <<>>)
          \o <<[type |-> "run-review",
                title |-> [text |-> "Run structured consistency and critic review",
                           stepId |-> 0],
                score |-> 65 + preferenceBoost(in.preference, "run-review"),
                targetStepId |-> NoTarget]>>
        unique == dedupeCandidates(candidates)
    IN [i \in 1..Len(unique) |-> unique[i].item]

\* the fixed wordings in the order localeCompare gives them
TitleOrder ==
    <<"Advance current in-progress step",
      "Gather supporting evidence for current state",
      "Resolve active blocker from current context",
      "Resolve blocker on",
      "Revise plan for blocked/skipped path",
      "Run structured consistency and critic review",
      "Start next pending step",
      "Verify highest-risk assumption">>

titleRank(title) == CHOOSE k \in 1..Len(TitleOrder) : TitleOrder[k] = title.text

\* the sort with the titles compared the other way round
sortCandidatesMutant(candidates) ==
    LET before(j, i) ==
            \/ candidates[j].score > candidates[i].score
            \/ /\ candidates[j].score = candidates[i].score
               /\ \/ titleRank(candidates[j].title) > titleRank(candidates[i].title)
                  \/ /\ titleRank(candidates[j].title) = titleRank(candidates[i].title)
                     /\ j < i
        rank(i) == Cardinality({j \in 1..Len(candidates) : before(j, i)}) + 1
    IN [k \in 1..Len(candidates) |->
          candidates[CHOOSE i \in 1..Len(candidates) : rank(i) = k]]

\* candidates.sort((a, b) => b.score - a.score || a.title.localeCompare(b.title))
sortCandidates(candidates) ==
    LET before(j, i) ==
            \/ candidates[j].score > candidates[i].score
            \/ /\ candidates[j].score = candidates[i].score
               /\ \/ titleRank(candidates[j].title) < titleRank(candidates[i].title)
                  \/ /\ titleRank(candidates[j].title) = titleRank(candidates[i].title)
                     /\ j < i
        rank(i) == Cardinality({j \in 1..Len(candidates) : before(j, i)}) + 1
    IN [k \in 1..Len(candidates) |->
          candidates[CHOOSE i \in 1..Len(candidates) : rank(i) = k]]

fallbackCandidate ==
    [type |-> "run-review",
     title |-> [text |-> "Run minimal review cycle", stepId |-> 0],
     score |-> 1,
     targetStepId |-> NoTarget]

\* best is sorted[0] ?? fallbackCandidate(policy)
selectNextBestAction(in) ==
    LET sorted == sortCandidates(buildCandidates(in))
        best == IF Len(sorted) > 0 THEN sorted[1] ELSE fallbackCandidate
    IN [recommendation |-> [type |-> best.type, title |-> best.title,
                            targetStepId |-> best.targetStepId],
        alternatives |->
            capItems([i \in 1..(Len(sorted) - 1) |->
                        [type |-> sorted[i + 1].type, title |-> sorted[i + 1].title]],
                     in.policy.maxAlternatives)]

\* ------------------------------------------------------------------------
\* Specification SpecCaps: every engine applied, in each policy mode, to
\* inputs that offer more items than the mode's caps allow
\* ------------------------------------------------------------------------

MaxCapItems == 21

\* n chained subtasks; in the risky pattern every second title is one that
\* inferRisk scores, so that minimum-risk adds a validation subtask to it
CapPlanInputs ==
    { [engine |-> "buildPlan",
       subtasks |-> [i \in 1..n |->
                       [id |-> "s" \o ToString(i),
                        title |-> IF risky /\ i % 2 = 0 THEN <<"implement", "fix">>
                                  ELSE <<"clarify", "scope">>,
                        dependsOn |-> IF i = 1 THEN <<>>
                                      ELSE <<"s" \o ToString(i - 1)>>]]] :
        n \in 0..MaxCapItems, risky \in BOOLEAN }

CapDecomposeInputs ==
    { [engine |-> "decomposeTask", taskType |-> taskType,
       constraintCount |-> constraintCount] :
        taskType \in TaskTypes, constraintCount \in {0, 4} }

\* one step with n references to steps that are not defined
CapCheckInputs ==
    { [engine |-> "runConsistencyCheck", refs |-> n] : n \in 0..MaxCapItems }

CapCriticInputs ==
    { [engine |-> "runCriticReview",
       text |-> [words |-> IF shape.length = 0 THEN {} ELSE words,
                 length |-> shape.length,
                 wordCount |-> shape.wordCount,
                 sentenceCount |-> shape.sentenceCount]] :
        words \in {{}, UNION CriticPhrases}, shape \in CriticShapes }

CapStatusLists ==
    LET statuses == {"pending", "in_progress", "blocked", "done", "skipped"}
    IN {<<>>} \cup {<<a>> : a \in statuses} \cup {<<a, b>> : a \in statuses, b \in statuses}

CapNextActionInputs ==
    { [engine |-> "selectNextBestAction",
       planSteps |-> [i \in 1..Len(statuses) |-> [stepId |-> i, status |-> statuses[i]]],
       assumptions |-> held,
       decisionLogs |-> logs,
       blockers |-> blockers,
       openRisks |-> openRisks] :
        statuses \in CapStatusLists,
        held \in { <<>>,
                   <<[assumptionId |-> 1, status |-> "risky", risk |-> "low"]>>,
                   <<[assumptionId |-> 1, status |-> "unverified", risk |-> "high"]>> },
        logs \in { <<>>, <<[kind |-> "result"]>> },
        blockers \in {0, 1},
        openRisks \in {0, 1} }

CapAnalyzePhrases ==
    { {"tbd"}, {"done"}, {"docker", "mcp", "sqlite"}, {"production"}, {"urgent"} }

CapAnalyzeInputs ==
    { [engine |-> "analyzeTask",
       task |-> [words |-> UNION phrases, length |-> length, question |-> question],
       taskType |-> taskType,
       context |-> [environment |-> given, domain |-> given, existingPlan |-> given],
       constraintCount |-> constraintCount] :
        phrases \in SUBSET CapAnalyzePhrases, length \in {100, 2000},
        question \in BOOLEAN, taskType \in {"coding", "architecture", "mixed"},
        given \in BOOLEAN, constraintCount \in {0, 5} }

InitCaps ==
    /\ pc = "ready"
    /\ input \in CapPlanInputs \cup CapDecomposeInputs \cup CapCheckInputs
                 \cup CapCriticInputs \cup CapNextActionInputs \cup CapAnalyzeInputs
    /\ locals = Null
    /\ output = Null
    /\ plans = <<>>
    /\ plan_steps = <<>>
    /\ assumptions = <<>>
    /\ clock = 0
    /\ sessions = {}

\* an engine call in the given mode; locals keeps the mode
CapReturn(mode, result) ==
    /\ output' = result
    /\ locals' = [mode |-> mode]
    /\ pc' = "done"
    /\ UNCHANGED <<input, plans, plan_steps, assumptions, clock, sessions>>

CapBuildPlanCall(mode, strategy) ==
    /\ pc = "ready"
    /\ input.engine = "buildPlan"
    /\ CapReturn(mode, buildPlan([subtasks |-> input.subtasks, strategy |-> strategy,
                                  constraintCount |-> 0, includeCheckpoints |-> TRUE,
                                  policy |-> POLICY_BY_MODE[mode]]))

CapDecomposeCall(mode, decompositionMode) ==
    /\ pc = "ready"
    /\ input.engine = "decomposeTask"
    /\ CapReturn(mode, decomposeTask([taskType |-> input.taskType,
                                      constraintCount |-> input.constraintCount,
                                      mode |-> decompositionMode,
                                      policy |-> POLICY_BY_MODE[mode]]))

CapCheckCall(mode) ==
    /\ pc = "ready"
    /\ input.engine = "runConsistencyCheck"
    /\ CapReturn(mode, runConsistencyCheck(
          [draft |-> [claims |-> <<>>, conclusions |-> <<>>, planText |-> <<>>,
                      stepsGiven |-> TRUE,
                      steps |-> <<[id |-> "a", text |-> <<"step", "work">>,
                                   dependsOn |-> [k \in 1..input.refs |-> "x"]]>>],
           checkTargets |-> CheckTargets,
           normalizedGoal |-> <<>>,
           sessionPlanSteps |-> <<>>,
           sessionAssumptions |-> <<>>,
           recentDecisionLogs |-> <<>>,
           policy |-> POLICY_BY_MODE[mode]]))

CapCriticCall(mode) ==
    /\ pc = "ready"
    /\ input.engine = "runCriticReview"
    /\ CapReturn(mode, runCriticReview([text |-> input.text, rubric |-> <<>>,
                                        policy |-> POLICY_BY_MODE[mode],
                                        tieUp |-> TRUE]))

CapNextActionCall(mode, preference) ==
    /\ pc = "ready"
    /\ input.engine = "selectNextBestAction"
    /\ CapReturn(mode, selectNextBestAction(
          [planSteps |-> input.planSteps, assumptions |-> input.assumptions,
           decisionLogs |-> input.decisionLogs, blockers |-> input.blockers,
           openRisks |-> input.openRisks, preference |-> preference,
           policy |-> POLICY_BY_MODE[mode]]))

CapAnalyzeCall(mode) ==
    /\ pc = "ready"
    /\ input.engine = "analyzeTask"
    /\ CapReturn(mode, analyzeTask([task |-> input.task, taskType |-> input.taskType,
                                    context |-> input.context,
                                    constraintCount |-> input.constraintCount,
                                    policy |-> POLICY_BY_MODE[mode]]))

NextCaps ==
    \E mode \in ClientModes :
        \/ \E strategy \in PlanStrategies : CapBuildPlanCall(mode, strategy)
        \/ \E decompositionMode \in {"linear", "tree", "milestone"} :
              CapDecomposeCall(mode, decompositionMode)
        \/ CapCheckCall(mode)
        \/ CapCriticCall(mode)
        \/ \E preference \in {"progress", "safety", "validation", "unblock"} :
              CapNextActionCall(mode, preference)
        \/ CapAnalyzeCall(mode)

SpecCaps == InitCaps /\ [][NextCaps]_vars

\* C7: in each of the three modes the steps of buildPlan and the subtasks of
\* decomposeTask number at most maxSubtasks, the issues of
\* runConsistencyCheck and the findings of runCriticReview at most
\* maxFindings, the alternatives of selectNextBestAction at most
\* maxAlternatives, and the risks and unknowns of analyzeTask at most
\* maxRisks and maxUnknowns.
C7_ListsWithinPolicyCaps ==
    pc = "done" =>
        LET policy == POLICY_BY_MODE[locals.mode]
        IN /\ input.engine = "buildPlan" => Len(output.steps) <= policy.maxSubtasks
           /\ input.engine = "decomposeTask" => Len(output.subtasks) <= policy.maxSubtasks
           /\ input.engine = "runConsistencyCheck" =>
                 Len(output.issues) <= policy.maxFindings
           /\ input.engine = "runCriticReview" =>
                 Len(output.findings) <= policy.maxFindings
           /\ input.engine = "selectNextBestAction" =>
                 Len(output.alternatives) <= policy.maxAlternatives
           /\ input.engine = "analyzeTask" =>
                 /\ Len(output.risks) <= policy.maxRisks
                 /\ Len(output.unknowns) <= policy.maxUnknowns

C7_Witness ==
    /\ pc = "done"
    /\ input.engine = "buildPlan"
    /\ locals.mode = "deep"
    /\ Len(input.subtasks) > POLICY_BY_MODE["deep"].maxSubtasks
    /\ Len(output.steps) = POLICY_BY_MODE["deep"].maxSubtasks

\* ------------------------------------------------------------------------
\* Specification SpecText: sanitizeText applied under each character cap of
\* the policies to texts whose normalised length lies around a cap
\* ------------------------------------------------------------------------

PolicyCharCaps ==
    {POLICY_BY_MODE[mode].textMaxChars : mode \in ClientModes}
    \cup {POLICY_BY_MODE[mode].shortTextMaxChars : mode \in ClientModes}

\* how far beyond a cap the normalised texts reach
MaxOver == 4

TextLeads == { <<>>, <<" ">>, <<"\t", " ">> }

TextGaps == { <<" ">>, <<" ", "\t">>, <<"\n", "\n", " ">> }

TextTails == { <<>>, <<"\n">> }

\* two words and a gap, with whitespace around: normalised, the text has
\* `near + over` characters; `edge` puts the gap last before the cut
TextInputs ==
    { lead \o Fill("a", IF edge THEN near - 4 ELSE near \div 2)
           \o gap
           \o Fill("b", near + over - 1 - (IF edge THEN near - 4 ELSE near \div 2))
           \o tail :
        lead \in TextLeads, gap \in TextGaps, tail \in TextTails,
        near \in PolicyCharCaps, over \in (-1)..MaxOver, edge \in BOOLEAN }
    \cup { <<>>, <<" ", "\n">>, <<" ", "a", "\t">> }

InitText ==
    /\ pc = "ready"
    /\ input \in {[text |-> text] : text \in TextInputs}
    /\ locals = Null
    /\ output = Null
    /\ plans = <<>>
    /\ plan_steps = <<>>
    /\ assumptions = <<>>
    /\ clock = 0
    /\ sessions = {}

SanitizeTextCall(maxChars) ==
    /\ pc = "ready"
    /\ output' = sanitizeText(input.text, maxChars)
    /\ locals' = [maxChars |-> maxChars]
    /\ pc' = "done"
    /\ UNCHANGED <<input, plans, plan_steps, assumptions, clock, sessions>>

NextText == \E maxChars \in PolicyCharCaps : SanitizeTextCall(maxChars)

SpecText == InitText /\ [][NextText]_vars

\* the words of a text, in order: its maximal runs of non-whitespace
WordsOf(text) ==
    LET starts == {i \in 1..Len(text) :
                      /\ text[i] \notin Whitespace
                      /\ i = 1 \/ text[i - 1] \in Whitespace}
        ends == {j \in 1..Len(text) :
                    /\ text[j] \notin Whitespace
                    /\ j = Len(text) \/ text[j + 1] \in Whitespace}
        endOf(i) == CHOOSE j \in ends : j >= i /\ \A k \in ends : k >= i => j <= k
        nth(k) == CHOOSE i \in starts : Cardinality({j \in starts : j < i}) = k - 1
    IN [k \in 1..Cardinality(starts) |-> SubSeq(text, nth(k), endOf(nth(k)))]

\* the whitespace-normalised text: its words, one space between them
NormalisedText == JoinWith(WordsOf(input.text), <<" ">>)

\* C8: under every character cap n of a policy, sanitizeText(s, n) has at
\* most n characters; it is the whitespace-normalised s when that has at
\* most n characters, and otherwise the first n - 3 characters of the
\* normalised s followed by "...".
C8_SanitizeTextWithinCap ==
    pc = "done" =>
        \E normalised \in {NormalisedText} :
            /\ Len(output) <= locals.maxChars
            /\ Len(normalised) <= locals.maxChars => output = normalised
            /\ Len(normalised) > locals.maxChars =>
                  output = SubSeq(normalised, 1, locals.maxChars - 3) \o <<".", ".", ".">>

C8_Witness ==
    /\ pc = "done"
    /\ locals.maxChars = 900
    /\ Len(input.text) > 904
    /\ input.text[1] = "\t"
    /\ Len(NormalisedText) = 901
    /\ Len(output) = 900
    /\ output[897] = " "
    /\ output[898] = "."

\* ------------------------------------------------------------------------
\* decomposeTask's critical path, under SpecCaps
\* ------------------------------------------------------------------------

\* 1-based positions of the subtasks that subtask k lists in dependsOn
DependencyPositions(subtasks, k) ==
    {i \in 1..Len(subtasks) : subtasks[i].id \in Range(subtasks[k].dependsOn)}

\* number of subtasks in the longest dependency chain that ends at subtask k
RECURSIVE LongestChainTo(_, _)
LongestChainTo(subtasks, k) ==
    LET lengths == {LongestChainTo(subtasks, i) : i \in DependencyPositions(subtasks, k)}
    IN IF lengths = {} THEN 1
       ELSE 1 + (CHOOSE m \in lengths : \A x \in lengths : x <= m)

\* path is a chain of the subtasks: each element is a dependency of the next
IsDependencyChain(subtasks, path) ==
    /\ \A i \in 1..Len(path) : \E k \in 1..Len(subtasks) : subtasks[k].id = path[i]
    /\ \A i \in 1..(Len(path) - 1) :
          path[i] \in Range(subtasks[indexById(subtasks, path[i + 1]) + 1].dependsOn)

\* positions at which a chain of maximal length ends
LongestChainEnds(subtasks) ==
    {k \in 1..Len(subtasks) :
        \A j \in 1..Len(subtasks) :
            LongestChainTo(subtasks, j) <= LongestChainTo(subtasks, k)}

DecomposeDone == pc = "done" /\ input.engine = "decomposeTask"

\* C11: decomposeTask's criticalPath is a dependency chain of maximal
\* length in which each element is a dependency of the next, and when
\* several chains have that length the one returned ends at the subtask
\* that appears latest in the subtask order.
C11_CriticalPathTiesToLatest ==
    DecomposeDone =>
        \E subtasks \in {output.subtasks} :
        \E path \in {output.criticalPath} :
            /\ IsDependencyChain(subtasks, path)
            /\ \A k \in LongestChainEnds(subtasks) :
                  /\ Len(path) = LongestChainTo(subtasks, k)
                  /\ indexById(subtasks, path[Len(path)]) + 1 >= k

\* ------------------------------------------------------------------------
\* Specification SpecNextAction: selectNextBestAction applied to bounded
\* session states under each preference and policy mode
\* ------------------------------------------------------------------------

MaxActionSteps == 2

StepStatuses == {"pending", "in_progress", "blocked", "done", "skipped"}

ActionStatusLists ==
    UNION {[1..n -> StepStatuses] : n \in 0..MaxActionSteps}

NextActionInputs ==
    { [planSteps |-> [i \in 1..Len(statuses) |-> [stepId |-> i, status |-> statuses[i]]],
       assumptions |-> held,
       decisionLogs |-> logs,
       blockers |-> blockers,
       openRisks |-> openRisks,
       preference |-> preference,
       policy |-> POLICY_BY_MODE[mode]] :
        statuses \in ActionStatusLists,
        held \in { <<>>,
                   <<[assumptionId |-> 1, status |-> "risky", risk |-> "low"]>>,
                   <<[assumptionId |-> 1, status |-> "verified", risk |-> "low"],
                     [assumptionId |-> 2, status |-> "contradicted", risk |-> "low"]>>,
                   <<[assumptionId |-> 1, status |-> "verified", risk |-> "high"],
                     [assumptionId |-> 2, status |-> "unverified", risk |-> "high"]>> },
        logs \in { <<>>, <<[kind |-> "result"]>> },
        blockers \in {0, 1},
        openRisks \in {0, 1},
        preference \in {"progress", "safety", "validation", "unblock"},
        mode \in ClientModes }

InitNextAction ==
    /\ pc = "ready"
    /\ input \in NextActionInputs
    /\ locals = Null
    /\ output = Null
    /\ plans = <<>>
    /\ plan_steps = <<>>
    /\ assumptions = <<>>
    /\ clock = 0
    /\ sessions = {}

NextActionCall ==
    /\ pc = "ready"
    /\ output' = selectNextBestAction(input)
    /\ pc' = "done"
    /\ UNCHANGED <<input, locals, plans, plan_steps, assumptions, clock, sessions>>

NextNextAction == NextActionCall

SpecNextAction == InitNextAction /\ [][NextNextAction]_vars

\* the candidates of the call; each action type occurs at most once in them
Candidates == buildCandidates(input)

\* position in Candidates of the candidate with the given type
CandidateOf(type) == CHOOSE i \in 1..Len(Candidates) : Candidates[i].type = type

\* candidate i goes before candidate j: higher score, or equal score and
\* alphabetically smaller title
GoesBefore(i, j) ==
    \/ Candidates[i].score > Candidates[j].score
    \/ /\ Candidates[i].score = Candidates[j].score
       /\ titleRank(Candidates[i].title) < titleRank(Candidates[j].title)

\* positions in Candidates of the returned actions, recommendation first
ReturnedActions ==
    <<CandidateOf(output.recommendation.type)>>
    \o [k \in 1..Len(output.alternatives) |-> CandidateOf(output.alternatives[k].type)]

\* C12: the recommendation is a candidate with the highest score, ties
\* between equal scores going to the alphabetically smaller title; the
\* alternatives are the remaining candidates in non-increasing score
\* order cut to maxAlternatives; no two returned actions share the same
\* (type, targetStepId).
C12_BestActionAndAlternatives ==
    pc = "done" =>
        \E returned \in {ReturnedActions} :
            /\ \A k \in 1..Len(returned) :
                  /\ Candidates[returned[k]].title =
                        (IF k = 1 THEN output.recommendation.title
                         ELSE output.alternatives[k - 1].title)
                  /\ \A i \in 1..Len(Candidates) :
                        i \notin {returned[j] : j \in 1..k} => GoesBefore(returned[k], i)
            /\ Candidates[returned[1]].targetStepId = output.recommendation.targetStepId
            /\ Len(output.alternatives) =
                  Min(input.policy.maxAlternatives, Len(Candidates) - 1)
            /\ \A k \in 1..(Len(returned) - 1) :
                  Candidates[returned[k]].score >= Candidates[returned[k + 1]].score
            /\ \A j, k \in 1..Len(returned) :
                  j # k =>
                    <<Candidates[returned[j]].type, Candidates[returned[j]].targetStepId>>
                    # <<Candidates[returned[k]].type, Candidates[returned[k]].targetStepId>>

\* under safety an in-progress step and evidence gathering both score 80:
\* the step, whose title is alphabetically smaller, is recommended, and
\* the three other candidates are cut to the two alternatives of small mode
C12_Witness ==
    /\ pc = "done"
    /\ input.preference = "safety"
    /\ Len(Candidates) = 4
    /\ output.recommendation.type = "execute-step"
    /\ Candidates[CandidateOf("execute-step")].score = 80
    /\ Candidates[CandidateOf("gather-evidence")].score = 80
    /\ output.alternatives[1].type = "gather-evidence"
    /\ Len(output.alternatives) = 2

\* ------------------------------------------------------------------------
\* Specification SpecStrategy: buildPlan applied, under each strategy, to
\* subtask lists of up to MaxPlanLen subtasks whose dependencies follow a
\* shape (chains, fans, forward references, cycles, undefined ids) and
\* whose titles follow a risk pattern.  locals keeps the subtask lists of
\* lines 58-67 of the call.
\* ------------------------------------------------------------------------

MaxPlanLen == 7

DependencyShapes == {"none", "chain", "fan", "forward", "ring", "partial", "tangle"}

TitlePatterns == {"plain", "graded", "risky"}

\* "plain" ids are a, b, ...; in "merged" the last subtask carries the id
\* that compressForFastest gives its first merged node, in "verify" the
\* second subtask carries the id that expandForRisk gives the follow-up of
\* the first, in "follow" the first carries the id of the follow-up of the
\* second
IdPatterns == {"plain", "merged", "verify", "follow"}

shapeId(i, n, ids) ==
    IF ids = "merged" /\ i = n THEN "merged_1"
    ELSE IF ids = "verify" /\ i = 2 THEN "a_verify"
    ELSE IF ids = "follow" /\ i = 1 /\ n > 1 THEN "b_verify"
    ELSE IdNames[i]

shapeDependsOn(i, n, shape, ids) ==
    LET id(k) == shapeId(k, n, ids)
    IN CASE shape = "none" -> <<>>
         [] shape = "chain" -> IF i = 1 THEN <<>> ELSE <<id(i - 1)>>
         [] shape = "fan" ->
              IF i = 1 THEN <<>> ELSE IF i = 2 THEN <<id(1)>> ELSE <<id(1), id(i - 1)>>
         [] shape = "forward" -> IF i = n THEN <<>> ELSE <<id(i + 1)>>
         [] shape = "ring" -> IF i = 1 THEN <<id(n)>> ELSE <<id(i - 1)>>
         [] shape = "partial" -> IF i = 1 THEN <<"x">> ELSE <<"x", id(i - 1)>>
         [] shape = "tangle" ->
              (IF i < n THEN <<id(i + 1)>> ELSE <<>>)
              \o (IF i > 1 THEN <<id(i - 1)>> ELSE <<>>)

\* inferRisk gives the three titles low, medium and high
shapeTitle(i, pattern) ==
    IF pattern = "risky" \/ (pattern = "graded" /\ i % 3 = 2)
    THEN <<"implement", "fix">>
    ELSE IF pattern = "graded" /\ i % 3 = 0
    THEN <<"design", "auth", "flow">>
    ELSE <<"clarify", "scope">>

StrategyInputs ==
    { [i \in 1..n |->
         [id |-> shapeId(i, n, ids),
          title |-> shapeTitle(i, pattern),
          dependsOn |-> shapeDependsOn(i, n, shape, ids)]] :
        n \in 0..MaxPlanLen, shape \in DependencyShapes,
        pattern \in TitlePatterns, ids \in IdPatterns }

InitStrategy ==
    /\ pc = "ready"
    /\ input \in {[subtasks |-> st] : st \in StrategyInputs}
    /\ locals = Null
    /\ output = Null
    /\ plans = <<>>
    /\ plan_steps = {}
    /\ assumptions = {}
    /\ clock = 0
    /\ sessions = {}

StrategyPlanCall(strategy, constraintCount, includeCheckpoints, mode) ==
    /\ pc = "ready"
    /\ \E in \in {[subtasks |-> input.subtasks, strategy |-> strategy,
                    constraintCount |-> constraintCount,
                    includeCheckpoints |-> includeCheckpoints,
                    policy |-> POLICY_BY_MODE[mode]]} :
          /\ input' = in
          /\ locals' = [baseSubtasks |-> normalizeSubtasks(in.subtasks),
                        strategySubtasks |-> strategySubtasks(in),
                        cappedSubtasks |-> cappedSubtasks(in)]
          /\ output' = buildPlan(in)
    /\ pc' = "done"
    /\ UNCHANGED <<plans, plan_steps, assumptions, clock, sessions>>

NextStrategy ==
    \E strategy \in PlanStrategies, constraintCount \in {0, 5},
       includeCheckpoints \in BOOLEAN, mode \in ClientModes :
        StrategyPlanCall(strategy, constraintCount, includeCheckpoints, mode)

SpecStrategy == InitStrategy /\ [][NextStrategy]_vars

\* C13: with strategy fastest and n > 4 subtasks the adjacent subtasks are
\* merged pairwise (1st with 2nd, 3rd with 4th, ...; an odd last subtask
\* stays alone) into ceil(n/2) nodes, each merged node's dependency set
\* being the union of the pair's dependencies, so 6 subtasks give at most
\* 4 plan steps; with n <= 4 the subtask list is left unchanged.
C13_FastestMergesPairs ==
    (pc = "done" /\ input.strategy = "fastest") =>
        \E base \in {locals.baseSubtasks} :
        \E nodes \in {locals.strategySubtasks} :
            /\ Len(base) <= 4 => nodes = base
            /\ Len(base) > 4 =>
                  /\ Len(nodes) = (Len(base) + 1) \div 2
                  /\ \A k \in 1..(Len(base) \div 2) :
                        /\ nodes[k].title =
                              base[2 * k - 1].title \o <<"+">> \o base[2 * k].title
                        /\ Range(nodes[k].dependsOn) =
                              Range(base[2 * k - 1].dependsOn)
                              \cup Range(base[2 * k].dependsOn)
                  /\ Len(base) % 2 = 1 => nodes[Len(nodes)] = base[Len(base)]
            /\ Len(base) = 6 => Len(output.steps) <= 4

\* seven subtasks in a fan: four nodes, the first three merged, the
\* second depending on a, b and c, the seventh subtask alone
C13_Witness ==
    /\ pc = "done"
    /\ input.strategy = "fastest"
    /\ Len(input.subtasks) = 7
    /\ input.subtasks[4].dependsOn = <<"a", "c">>
    /\ Len(locals.strategySubtasks) = 4
    /\ locals.strategySubtasks[2].dependsOn = <<"a", "b", "c">>
    /\ locals.strategySubtasks[4] = input.subtasks[7]
    /\ Len(output.steps) = 4

\* 1-based positions of the steps that a checkpoint names
CheckpointPositions ==
    [k \in 1..Len(output.checkpoints) |->
        {i \in 1..Len(output.steps) :
            output.steps[i].stepId = output.checkpoints[k].afterStepId}]

\* the placement rule for the step at 0-based position i
CheckpointDue(i) ==
    \E step \in {output.steps[i + 1]} :
        CASE input.strategy = "minimum-risk" -> step.risk # "low" \/ i % 2 = 1
          [] input.strategy = "fastest" -> i = Len(output.steps) - 1
          [] input.strategy = "balanced" -> step.risk = "high" \/ i % 3 = 2

\* C14: with checkpoints enabled a checkpoint follows the step at 0-based
\* position i exactly when: under minimum-risk the step's risk is not low
\* or i is odd; under fastest i is the last position; under balanced the
\* step's risk is high or i mod 3 = 2.  Every afterStepId is a step of the
\* output, the checkpoints follow step order, and with includeCheckpoints
\* false there is none.
C14_CheckpointPlacement ==
    pc = "done" =>
        /\ ~input.includeCheckpoints => output.checkpoints = <<>>
        /\ input.includeCheckpoints =>
              /\ \A i \in 0..(Len(output.steps) - 1) :
                    CheckpointDue(i) <=>
                        \E k \in 1..Len(output.checkpoints) :
                            CheckpointPositions[k] = {i + 1}
              /\ \A k \in 1..Len(output.checkpoints) :
                    Cardinality(CheckpointPositions[k]) = 1
              /\ \A k \in 1..(Len(output.checkpoints) - 1) :
                    \A i \in CheckpointPositions[k], j \in CheckpointPositions[k + 1] :
                        i < j

\* a balanced plan of seven steps whose fifth step is high-risk: it gets a
\* checkpoint next to the ones after the third and sixth steps
C14_Witness ==
    /\ pc = "done"
    /\ input.strategy = "balanced"
    /\ input.includeCheckpoints
    /\ Len(output.steps) = 7
    /\ output.steps[5].risk = "high"
    /\ output.steps[4].risk # "high"
    /\ Len(output.checkpoints) = 3
    /\ output.checkpoints[1].afterStepId = output.steps[3].stepId
    /\ output.checkpoints[2].afterStepId = output.steps[5].stepId
    /\ output.checkpoints[3].afterStepId = output.steps[6].stepId

\* ------------------------------------------------------------------------
\* reasoning/analyze: detectTaskType
\* The task is [words]: the set of keywords that the lower-cased text
\* includes as substrings.  "bug" is a substring of "debug", so a text that
\* includes "debug" includes "bug"; no other keyword lies within another.
\* ------------------------------------------------------------------------

TASK_TYPE_KEYWORDS ==
    [coding |-> <<"implement", "build", "code", "endpoint", "refactor",
                  "typescript", "function", "server">>,
     debugging |-> <<"debug", "bug", "fix", "error", "failing", "issue", "trace",
                     "investigate">>,
     architecture |-> <<"architecture", "design", "system", "scalable", "modular",
                        "infrastructure", "component">>,
     planning |-> <<"plan", "roadmap", "phase", "milestone", "schedule", "sequence",
                    "workflow">>,
     analysis |-> <<"analyze", "evaluate", "assess", "compare", "review", "research",
                    "risk">>,
     mixed |-> <<>>]

\* Object.entries(TASK_TYPE_KEYWORDS) without mixed, in insertion order
ScoredTypes == <<"coding", "debugging", "architecture", "planning", "analysis">>

\* keywords.reduce(...): the number of the type's keywords the text includes
keywordScore(task, type) ==
    Cardinality({k \in 1..Len(TASK_TYPE_KEYWORDS[type]) :
                    TASK_TYPE_KEYWORDS[type][k] \in task.words})

\* .sort((a, b) => b.score - a.score): stable, higher score first
sortScores(scores) ==
    LET before(j, i) == \/ scores[j].score > scores[i].score
                        \/ scores[j].score = scores[i].score /\ j < i
        rank(i) == Cardinality({j \in 1..Len(scores) : before(j, i)}) + 1
    IN [k \in 1..Len(scores) |-> scores[CHOOSE i \in 1..Len(scores) : rank(i) = k]]

\* the margin test with < in place of <=
resolveTaskTypeMutant(best, second) ==
    IF best.score = 0 THEN "mixed"
    ELSE IF best.score - second.score < 1 /\ second.score > 0 THEN "mixed"
    ELSE best.type

\* lines 132-140; scores[0] and scores[1] are always defined
resolveTaskType(best, second) ==
    IF best.score = 0 THEN "mixed"
    ELSE IF best.score - second.score <= 1 /\ second.score > 0 THEN "mixed"
    ELSE best.type

detectTaskType(task) ==
    With(sortScores([i \in 1..Len(ScoredTypes) |->
                       [type |-> ScoredTypes[i],
                        score |-> keywordScore(task, ScoredTypes[i])]]),
         LAMBDA scores : resolveTaskType(scores[1], scores[2]))

\* ------------------------------------------------------------------------
\* Specification SpecTaskType: detectTaskType applied to texts that include
\* up to MaxMatches keywords of each type
\* ------------------------------------------------------------------------

MaxMatches == 3

\* the last n keywords of a type
LastKeywords(type, n) ==
    {TASK_TYPE_KEYWORDS[type][k] :
        k \in (Len(TASK_TYPE_KEYWORDS[type]) - n + 1)..Len(TASK_TYPE_KEYWORDS[type])}

\* the keywords of "Debug failing auth endpoint. Must use only SQLite.
\* Cannot use external APIs. Why is it failing?"
DebugTaskWords == {"debug", "bug", "failing", "endpoint"}

TaskTypeInputs ==
    { [words |-> UNION {LastKeywords(ScoredTypes[i], counts[i]) :
                          i \in 1..Len(ScoredTypes)}] :
        counts \in [1..Len(ScoredTypes) -> 0..MaxMatches] }
    \cup { [words |-> DebugTaskWords] }

InitTaskType ==
    /\ pc = "ready"
    /\ input \in {[task |-> task] : task \in TaskTypeInputs}
    /\ locals = Null
    /\ output = Null
    /\ plans = <<>>
    /\ plan_steps = {}
    /\ assumptions = {}
    /\ clock = 0
    /\ sessions = {}

DetectTaskTypeCall ==
    /\ pc = "ready"
    /\ output' = [taskType |-> detectTaskType(input.task)]
    /\ pc' = "done"
    /\ UNCHANGED <<input, locals, plans, plan_steps, assumptions, clock, sessions>>

NextTaskType == DetectTaskTypeCall

SpecTaskType == InitTaskType /\ [][NextTaskType]_vars

\* per-type keyword match counts of the task
MatchCounts ==
    [type \in Range(ScoredTypes) |->
        Cardinality(Range(TASK_TYPE_KEYWORDS[type]) \cap input.task.words)]

\* C15: detectTaskType returns mixed when the highest count is 0, mixed
\* when the second-highest count is > 0 and within 1 of the highest (which
\* includes every tie for first place), and otherwise the single type with
\* the highest count.
C15_TaskTypeByMatchCounts ==
    pc = "done" =>
        \E counts \in {MatchCounts} :
        \E top \in Range(ScoredTypes) :
            /\ \A type \in Range(ScoredTypes) : counts[type] <= counts[top]
            /\ \E next \in Range(ScoredTypes) \ {top} :
                  /\ \A type \in Range(ScoredTypes) \ {top} : counts[type] <= counts[next]
                  /\ output.taskType =
                        (IF counts[top] = 0 THEN "mixed"
                         ELSE IF counts[next] > 0 /\ counts[top] - counts[next] <= 1
                         THEN "mixed"
                         ELSE top)

\* the task of the analyzeTask test: three debugging keywords against one
\* coding keyword
C15_Witness ==
    /\ pc = "done"
    /\ input.task.words = DebugTaskWords
    /\ MatchCounts["debugging"] = 3
    /\ MatchCounts["coding"] = 1
    /\ output.taskType = "debugging"


\* ------------------------------------------------------------------------
\* Specification SpecRubric: critic_review under rubric overrides
\* ------------------------------------------------------------------------

MaxTinyUnits == 3

\* what a rubric may hold for one category: numbers outside [0, 5] (which
\* only a direct caller of runCriticReview can pass), whole numbers inside
\* it, and multiples of 2^-1074
RubricValues == {Whole(-1), Whole(0), Whole(3), Whole(7), Tiny(1), Tiny(MaxTinyUnits)}

RubricOverrides ==
    {<<>>}
    \cup {[key \in DOMAIN DEFAULT_WEIGHTS |-> value] : value \in RubricValues}
    \cup [{"completeness", "simplicity"} -> RubricValues]
    \cup [DOMAIN DEFAULT_WEIGHTS -> {Whole(0), Tiny(1), Tiny(MaxTinyUnits)}]

RubricTexts ==
    {text \in CriticTexts :
        /\ text.length \in {0, 400}
        /\ text.words \cap {"maybe", "contradict", "critical", "skip validation",
                            "manual", "modular", "hack"} = {}}

InitRubric ==
    /\ pc = "ready"
    /\ input \in [text : RubricTexts, rubric : RubricOverrides]
    /\ locals = Null
    /\ output = Null
    /\ plans = <<>>
    /\ plan_steps = <<>>
    /\ assumptions = <<>>
    /\ clock = 0
    /\ sessions = {}

RubricReviewCall ==
    /\ pc = "ready"
    /\ \E tieUp \in BOOLEAN :
          output' = runCriticReview([text |-> input.text, rubric |-> input.rubric,
                                     policy |-> POLICY_BY_MODE["balanced"],
                                     tieUp |-> tieUp])
    /\ locals' = [weights |-> resolveWeights(input.rubric)]
    /\ pc' = "done"
    /\ UNCHANGED <<input, plans, plan_steps, assumptions, clock, sessions>>

NextRubric == RubricReviewCall

SpecRubric == InitRubric /\ [][NextRubric]_vars

\* the supplied weight limited to [0, 5], the default where none is supplied
OverriddenWeight(key) ==
    IF key \notin DOMAIN input.rubric THEN DEFAULT_WEIGHTS[key]
    ELSE IF input.rubric[key].whole < 0 THEN Whole(0)
    ELSE IF input.rubric[key].whole > 5 THEN Whole(5)
    ELSE input.rubric[key]

WeightsResolved ==
    /\ locals.weights =
          IF \A key \in DOMAIN DEFAULT_WEIGHTS : OverriddenWeight(key) = Whole(0)
          THEN DEFAULT_WEIGHTS
          ELSE [key \in DOMAIN DEFAULT_WEIGHTS |-> OverriddenWeight(key)]
    /\ sumWeights(locals.weights) # Whole(0)

CategoryScores == {output.scores[key] : key \in DOMAIN DEFAULT_WEIGHTS}

TotalWithinScores ==
    /\ \E score \in CategoryScores : score <= output.weightedTotal
    /\ \E score \in CategoryScores : output.weightedTotal <= score
    /\ output.weightedTotal \in 0..100

\* C16: under every rubric override each supplied weight is limited to
\* [0, 5], a category without an override keeps its default weight, and
\* weights that sum to zero are replaced by the default table; so the
\* divisor of the weighted total is not zero and the weighted total lies
\* between the smallest and the largest of the six category scores.
C16_WeightedTotalWithinScores ==
    pc = "done" => WeightsResolved /\ TotalWithinScores

\* the resolution of the weights taken alone
RubricWeightsResolved == pc = "done" => WeightsResolved

\* the range of the total where some weight is a whole number
WholeTotalWithinScores ==
    (pc = "done" /\ sumWeights(locals.weights).whole > 0) => TotalWithinScores


\* ------------------------------------------------------------------------
\* tools/planningTools: update_plan_status under safeToolHandler
\* A tool result is [isError, code, ...]; `thrown` tells whether the
\* handler ended by an exception, which safeToolHandler turns into the
\* result TOOL_EXECUTION_ERROR.  sessions.touch changes no sessionId.
\* ------------------------------------------------------------------------

\* SELECT * FROM assumptions WHERE assumptionId = ?: the row, or null
getById(rows, assumptionId) ==
    LET own == {i \in 1..Len(rows) : rows[i].assumptionId = assumptionId}
    IN IF own = {} THEN Null ELSE rows[CHOOSE i \in own : TRUE]

sessionFoundMutant(rows, sessionId) == TRUE

\* ensureSession: the session row is there
sessionFound(rows, sessionId) == sessionId \in rows

\* SELECT stepId ... WHERE sessionId = ? AND status = 'blocked' ORDER BY orderIndex
listBlockers(rows, sessionId) ==
    LET blocked == SelectSeq(listStepsBySession(rows, sessionId),
                             LAMBDA row : row.status = "blocked")
    IN [i \in 1..Len(blocked) |-> blocked[i].stepId]

jsonToolError(code) == [isError |-> TRUE, code |-> code]

\* the handler of update_plan_status, as safeToolHandler runs it; touched
\* holds the session that sessions.touch was called for
updatePlanStatusHandler(tables, sessionId, updates, timestamp) ==
    IF ~sessionFound(tables.sessions, sessionId)
    THEN [thrown |-> TRUE, result |-> jsonToolError("TOOL_EXECUTION_ERROR"),
          plans |-> tables.plans, plan_steps |-> tables.plan_steps, touched |-> {}]
    ELSE LET run == runUpdates(tables.plan_steps, sessionId, updates, timestamp)
             touched == IF run.changed > 0
                        THEN [i \in 1..Len(tables.plans) |->
                                IF tables.plans[i].sessionId = sessionId
                                THEN [tables.plans[i] EXCEPT !.updatedAt = timestamp]
                                ELSE tables.plans[i]]
                        ELSE tables.plans
             blockers == listBlockers(run.rows, sessionId)
         IN [thrown |-> FALSE,
             result |-> IF run.changed = 0 THEN jsonToolError("PLAN_STEP_NOT_FOUND")
                        ELSE [isError |-> FALSE, code |-> "ok",
                              updated |-> run.changed,
                              blockers |-> blockers,
                              preference |-> IF Len(blockers) > 0 THEN "unblock"
                                             ELSE "progress"],
             plans |-> touched, plan_steps |-> run.rows,
             touched |-> IF run.changed = 0 THEN {} ELSE {sessionId}]

\* ------------------------------------------------------------------------
\* Specification SpecTools: sessions are created, plans stored for them,
\* assumptions recorded, and update_plan_status called for any session id.
\* locals is the latest tool call: its arguments and how its handler ended.
\* ------------------------------------------------------------------------

ToolAssumptionTexts == <<<<"A", "b">>, <<"b", " ", "a">>>>

\* the update lists of the plan store and one that names the step of the
\* first list again, with another status and no note
ToolUpdateLists ==
    StoreUpdateLists \cup {<<[stepId |-> 1, status |-> "pending", note |-> Null]>>}

InitTools ==
    /\ pc = "idle"
    /\ input = [s \in Sessions |-> Null]
    /\ locals = Null
    /\ output = Null
    /\ plans = <<>>
    /\ plan_steps = <<>>
    /\ assumptions = <<>>
    /\ clock = 0
    /\ sessions = {}

CreateSession(sessionId) ==
    /\ sessionId \notin sessions
    /\ sessions' = sessions \cup {sessionId}
    /\ UNCHANGED <<pc, input, locals, output, plans, plan_steps, assumptions, clock>>

UpdatePlanStatusTool(sessionId, updates) ==
    /\ LET call == updatePlanStatusHandler(
                       [sessions |-> sessions, plans |-> plans,
                        plan_steps |-> plan_steps], sessionId, updates, clock)
       IN /\ plans' = call.plans
          /\ plan_steps' = call.plan_steps
          /\ output' = call.result
          /\ locals' = [tool |-> "update_plan_status", sessionId |-> sessionId,
                        updates |-> updates, thrown |-> call.thrown,
                        touched |-> call.touched]
    /\ UNCHANGED <<pc, input, assumptions, clock, sessions>>

NextTools ==
    \/ \E sessionId \in Sessions : CreateSession(sessionId)
    \/ \E sessionId \in sessions, steps \in StoreStepLists :
          createPlanWithSteps(sessionId, steps)
    \/ \E sessionId \in sessions :
          Len(assumptions) < 2 /\ upsertMany(sessionId, ToolAssumptionTexts)
    \/ \E sessionId \in Sessions, updates \in ToolUpdateLists :
          UpdatePlanStatusTool(sessionId, updates)

SpecTools == InitTools /\ [][NextTools]_vars

HasPlan(sessionId) == \E i \in 1..Len(plans) : plans[i].sessionId = sessionId

\* the latest tool call named a session, or only steps, that are not there
RefersToMissing ==
    /\ locals # Null
    /\ \/ locals.sessionId \notin sessions
       \/ output = jsonToolError("PLAN_STEP_NOT_FOUND")

\* what the repositories give for what is not there
AbsenceIsNullOrEmpty ==
    /\ \A sessionId \in Sessions :
          ~HasPlan(sessionId) =>
              /\ getLatestPlan(plans, sessionId) = {}
              /\ listStepsBySession(plan_steps, sessionId) = <<>>
    /\ \A assumptionId \in 0..3 :
          (\A i \in 1..Len(assumptions) : assumptions[i].assumptionId # assumptionId)
              => getById(assumptions, assumptionId) = Null

NamesKnownStep(sessionId, updates) ==
    \E i \in 1..Len(updates), j \in 1..Len(plan_steps) :
        /\ plan_steps[j].sessionId = sessionId
        /\ plan_steps[j].stepId = updates[i].stepId

\* what a call of update_plan_status does about what is not there
MissingSessionThrown(sessionId, updates) ==
    /\ locals'.thrown <=> sessionId \notin sessions
    /\ sessionId \notin sessions =>
          /\ output' = jsonToolError("TOOL_EXECUTION_ERROR")
          /\ UNCHANGED <<plans, plan_steps>>
    /\ (sessionId \in sessions /\ ~NamesKnownStep(sessionId, updates)) =>
          /\ output' = jsonToolError("PLAN_STEP_NOT_FOUND")
          /\ UNCHANGED <<plans, plan_steps>>

DistinctIds(subtasks) ==
    \A i, j \in 1..Len(subtasks) : subtasks[i].id = subtasks[j].id => i = j

\* the positions in the plan of the subtask with this id
StepsOf(id) == {i \in 1..Len(output.steps) : output.steps[i].sourceId = id}

SurvivingAcyclic ==
    \A id \in DefinedIds(locals.cappedSubtasks) : ~OnCycle(locals.cappedSubtasks, id)

EachSurvivorOnce ==
    /\ Len(output.steps) = Len(locals.cappedSubtasks)
    /\ \A k \in 1..Len(locals.cappedSubtasks) :
          /\ Cardinality(StepsOf(locals.cappedSubtasks[k].id)) = 1
          /\ \A i \in StepsOf(locals.cappedSubtasks[k].id) :
                output.steps[i].title = locals.cappedSubtasks[k].title

DependenciesFirst ==
    \A k \in 1..Len(locals.cappedSubtasks) :
        \A dep \in Range(locals.cappedSubtasks[k].dependsOn)
                     \cap DefinedIds(locals.cappedSubtasks) :
            \A i \in StepsOf(locals.cappedSubtasks[k].id), j \in StepsOf(dep) : j < i

\* C18: for every subtask list with distinct ids the steps of buildPlan
\* are the subtasks that survive the cap, each exactly once, also when
\* their dependencies form a cycle; and when the dependencies among the
\* surviving subtasks have no cycle, every step comes after each surviving
\* subtask it declares as a dependency.
C18_EverySurvivorOnceInOrder ==
    (pc = "done" /\ DistinctIds(input.subtasks)) =>
        /\ EachSurvivorOnce
        /\ SurvivingAcyclic => DependenciesFirst

\* a subtask of the call is in no step
InputSubtaskDropped ==
    /\ pc = "done"
    /\ DistinctIds(input.subtasks)
    /\ Len(locals.strategySubtasks) = Len(locals.cappedSubtasks)
    /\ input.strategy = "minimum-risk"
    /\ \E k \in 1..Len(input.subtasks) :
          \A i \in 1..Len(output.steps) :
              output.steps[i].title # input.subtasks[k].title

\* the same where the ids are still distinct once the strategy has added
\* its merged and follow-up nodes
OrderedWhenIdsStayDistinct ==
    (pc = "done" /\ DistinctIds(locals.strategySubtasks)) =>
        /\ EachSurvivorOnce
        /\ SurvivingAcyclic => DependenciesFirst

\* ------------------------------------------------------------------------
\* The dependencies of the plan's steps (SpecStrategy)
\* ------------------------------------------------------------------------

\* the dependencies declared by the subtask a step was made from
DeclaredBy(i) == byIdGet(locals.cappedSubtasks, output.steps[i].sourceId).dependsOn

\* the step a subtask id became: its order, 0 when no step has the id
PositionOf(id) ==
    IF StepsOf(id) = {} THEN 0 ELSE CHOOSE i \in StepsOf(id) : TRUE

\* a declared dependency of step i that is no step or not an earlier one
Misplaced(i, dep) == PositionOf(dep) = 0 \/ PositionOf(dep) >= i

OnlyPredecessor(i) == IF i = 1 THEN <<>> ELSE <<i - 1>>

\* the declared dependencies that are earlier steps, as step ids, in the
\* declared order
EarlierDeclared(i) ==
    LET declared == DeclaredBy(i)
        earlier == SelectSeq(declared, LAMBDA dep : ~Misplaced(i, dep))
    IN [k \in 1..Len(earlier) |-> PositionOf(earlier[k])]

\* C19: a step's declared dependencies are remapped to final step ids, and
\* a step with a declared dependency that resolves to a later position or
\* to no step depends on its immediate predecessor only, the first step on
\* nothing.
C19_MisplacedMeansPredecessor ==
    pc = "done" =>
        \A i \in 1..Len(output.steps) :
            IF \E dep \in Range(DeclaredBy(i)) : Misplaced(i, dep)
            THEN output.steps[i].dependsOn = OnlyPredecessor(i)
            ELSE DeclaredBy(i) # <<>> => output.steps[i].dependsOn = EarlierDeclared(i)

\* C19 as the code has it: a step depends on those of its declared
\* dependencies that resolve to earlier steps, remapped to final step ids;
\* a declared dependency that resolves to a later position or to no step
\* is dropped; and a step left with none, or that declared none, depends
\* on its immediate predecessor only, the first step on nothing.
C19_MisplacedDropped ==
    pc = "done" =>
        \A i \in 1..Len(output.steps) :
            output.steps[i].dependsOn =
                IF EarlierDeclared(i) # <<>> THEN EarlierDeclared(i)
                ELSE OnlyPredecessor(i)

C19_Witness ==
    /\ pc = "done"
    /\ \E i \in 1..Len(output.steps) :
          /\ \E dep \in Range(DeclaredBy(i)) : Misplaced(i, dep)
          /\ output.steps[i].dependsOn # OnlyPredecessor(i)
          /\ Len(output.steps[i].dependsOn) = 1
    /\ \E i \in 2..Len(output.steps) :
          /\ DeclaredBy(i) # <<>>
          /\ \A dep \in Range(DeclaredBy(i)) : Misplaced(i, dep)
          /\ output.steps[i].dependsOn = OnlyPredecessor(i)


\* ------------------------------------------------------------------------
\* The follow-up steps of minimum-risk (SpecStrategy)
\* ------------------------------------------------------------------------

\* the steps made from the k-th subtask of the call
StepsOfSubtask(k) ==
    {i \in 1..Len(output.steps) :
        /\ output.steps[i].sourceId = locals.baseSubtasks[k].id
        /\ output.steps[i].title = locals.baseSubtasks[k].title}

\* step i has a follow-up after it that validates the k-th subtask
HasFollowUp(k, i) ==
    \E j \in (i + 1)..Len(output.steps) :
        /\ output.steps[j].title = <<"validate">> \o locals.baseSubtasks[k].title
        /\ output.steps[i].stepId \in Range(output.steps[j].dependsOn)

\* C20: with strategy minimum-risk, every subtask of the call whose step is
\* reported with risk medium or high has a follow-up step titled
\* "Validate <its title>" that comes after its step and lists it in
\* dependsOn.
C20_RiskyStepsHaveFollowUp ==
    (pc = "done" /\ input.strategy = "minimum-risk") =>
        \A k \in 1..Len(locals.baseSubtasks) :
            \A i \in StepsOfSubtask(k) :
                output.steps[i].risk # "low" => HasFollowUp(k, i)

\* a step reported medium for its dependencies and the call's constraints
\* that expandForRisk, which passes no constraints, took for low: nothing is
\* cut and no id is repeated
RiskRaisedByConstraints ==
    /\ pc = "done"
    /\ input.strategy = "minimum-risk"
    /\ DistinctIds(locals.strategySubtasks)
    /\ Len(locals.cappedSubtasks) = Len(locals.strategySubtasks)
    /\ \E k \in 1..Len(locals.baseSubtasks) :
          \E i \in StepsOfSubtask(k) :
              /\ output.steps[i].risk = "medium"
              /\ inferRisk(output.steps[i].title, 0,
                           Len(locals.baseSubtasks[k].dependsOn)) = "low"
              /\ ~HasFollowUp(k, i)

\* the follow-ups where the call has no constraints, nothing is cut and no
\* id is repeated
FollowUpWithoutConstraints ==
    (/\ pc = "done"
     /\ input.strategy = "minimum-risk"
     /\ input.constraintCount = 0
     /\ DistinctIds(locals.strategySubtasks)
     /\ Len(locals.cappedSubtasks) = Len(locals.strategySubtasks)) =>
        \A k \in 1..Len(locals.baseSubtasks) :
            \A i \in StepsOfSubtask(k) :
                output.steps[i].risk # "low" => HasFollowUp(k, i)


\* ------------------------------------------------------------------------
\* Blockers and the baseline review (SpecNextAction)
\* ------------------------------------------------------------------------

BlockedSteps == SelectSeq(input.planSteps, LAMBDA step : step.status = "blocked")

HasBlocker == Len(BlockedSteps) > 0 \/ input.blockers > 0

HasDoubtfulAssumption ==
    \E i \in 1..Len(input.assumptions) :
        \/ input.assumptions[i].status \in {"risky", "contradicted"}
        \/ input.assumptions[i].status # "verified" /\ input.assumptions[i].risk = "high"

\* C21: when a plan step is blocked or the current context lists a blocker,
\* resolve-blocker is recommended under every preference, with the first
\* blocked step in plan order as its target when there is one; except
\* that under safety with a risky, contradicted or high-risk non-verified
\* assumption verify-assumption is recommended.
C21_BlockerComesFirst ==
    (pc = "done" /\ HasBlocker) =>
        IF input.preference = "safety" /\ HasDoubtfulAssumption
        THEN output.recommendation.type = "verify-assumption"
        ELSE /\ output.recommendation.type = "resolve-blocker"
             /\ output.recommendation.targetStepId =
                   IF Len(BlockedSteps) > 0 THEN [step |-> BlockedSteps[1].stepId]
                   ELSE NoTarget

\* the second of two steps is the blocked one, a step is in progress and
\* an assumption is contradicted; the preference is safety
C21_Witness ==
    /\ pc = "done"
    /\ Len(input.planSteps) = 2
    /\ input.planSteps[1].status = "in_progress"
    /\ input.planSteps[2].status = "blocked"
    /\ input.preference = "safety"
    /\ \E i \in 1..Len(input.assumptions) : input.assumptions[i].status = "contradicted"
    /\ output.recommendation.type = "verify-assumption"

\* a blocked second step under progress is the target
BlockedTargetWitness ==
    /\ pc = "done"
    /\ Len(input.planSteps) = 2
    /\ input.planSteps[1].status = "in_progress"
    /\ input.planSteps[2].status = "blocked"
    /\ input.preference = "progress"
    /\ output.recommendation.type = "resolve-blocker"
    /\ output.recommendation.targetStepId = [step |-> 2]


\* none of the rules that add a candidate besides run-review applies
NoRuleFires ==
    /\ \A i \in 1..Len(input.planSteps) : input.planSteps[i].status = "done"
    /\ ~HasDoubtfulAssumption
    /\ \E i \in 1..Len(input.decisionLogs) : input.decisionLogs[i].kind = "result"
    /\ input.blockers = 0
    /\ input.openRisks = 0

\* C22: the candidates of selectNextBestAction contain exactly one
\* run-review candidate, the baseline, so there is always a candidate to
\* recommend; and when no other rule adds a candidate the recommendation
\* is of type run-review.
C22_BaselineReviewAlwaysThere ==
    pc = "done" =>
        /\ Cardinality({i \in 1..Len(Candidates) : Candidates[i].type = "run-review"}) = 1
        /\ \E i \in 1..Len(Candidates) :
              /\ Candidates[i].type = output.recommendation.type
              /\ Candidates[i].title = output.recommendation.title
        /\ NoRuleFires =>
              /\ Len(Candidates) = 1
              /\ output.recommendation.type = "run-review"
              /\ output.alternatives = <<>>

\* two steps that are done and a result log
C22_Witness ==
    /\ pc = "done"
    /\ NoRuleFires
    /\ Len(input.planSteps) = 2
    /\ output.recommendation.type = "run-review"
    /\ output.recommendation.title.text = "Run structured consistency and critic review"

\* the sections whose text is empty; buildSections gives every section a
\* text ("N/A" and "none" stand for nothing), so these are the blanked ones
Blanked(working) ==
    {i \in 1..Len(working) : working[i].text = <<>>}

\* the sections the loop may blank: non-empty, unpreserved, not next-actions
Evictable(working) ==
    {i \in 1..Len(working) :
        /\ working[i].text # <<>>
        /\ working[i].key \notin Range(input.preserve)
        /\ working[i].key # "next-actions"}

SomeCompressible(working) ==
    \E i \in 1..Len(working) :
        /\ Len(working[i].text) > 80
        /\ (working[i].key \notin Range(input.preserve) \/ Len(working[i].text) > 140)

\* section i is blanked by the step
BlankedNow(i) ==
    /\ i \notin Blanked(locals.working)
    /\ i \in Blanked(locals'.working)

\* C23: every iteration of the compaction loop that blanks a section finds
\* no section compressible, blanks exactly one section, and that section
\* is non-empty, unpreserved, not next-actions and of the largest priority
\* number among such sections (3: recent-results, decisions; 2:
\* constraints, open-risks, assumptions; 1: goal, current-plan); so
\* next-actions and the preserved sections are never blanked.
C23_BlankingInEvictionOrder ==
    [][\A i \in 1..Len(SectionTable) :
          BlankedNow(i) =>
             /\ ~SomeCompressible(locals.working)
             /\ i \in Evictable(locals.working)
             /\ \A j \in Evictable(locals.working) :
                   locals.working[j].priority <= locals.working[i].priority
             /\ Blanked(locals'.working) = Blanked(locals.working) \cup {i}
             /\ locals.working[i].priority = SectionTable[i].priority
             /\ locals.working[i].key = SectionTable[i].key]_vars

SectionKeys(indices) == {SectionTable[i].key : i \in indices}

\* the loop has blanked both priority-3 sections and a priority-2 section
\* while a preserved section and next-actions keep their text
C23_Witness ==
    /\ pc = "done"
    /\ {"recent-results", "decisions"} \subseteq SectionKeys(Blanked(locals.working))
    /\ SectionKeys(Blanked(locals.working)) \cap {"constraints", "open-risks", "assumptions"} # {}
    /\ Range(input.preserve) = {"goal"}
    /\ SectionKeys(Blanked(locals.working)) \cap {"goal", "next-actions"} = {}

\* the loop has gone on to blank a priority-1 section
BlankedDownToGoal ==
    /\ pc = "done"
    /\ "goal" \in SectionKeys(Blanked(locals.working))
    /\ Len(input.goal) > 1

\* ------------------------------------------------------------------------
\* The life of a step under update_plan_status (SpecTools)
\* ------------------------------------------------------------------------

\* the moves the status of a step may make: none, forward along pending,
\* in_progress, done, or from a status that is not final to blocked or
\* skipped
ForwardMove(old, new) ==
    \/ old = new
    \/ old = "pending" /\ new \in {"in_progress", "done"}
    \/ old = "in_progress" /\ new = "done"
    \/ old \notin {"done", "skipped"} /\ new \in {"blocked", "skipped"}

\* the step changes plan_steps and leaves the plans as many as they were:
\* it is a call of update_plan_status
StatusesUpdated == plan_steps' # plan_steps /\ Len(plans') = Len(plans)

\* C24: across any sequence of update_plan_status calls the status of a
\* plan step only moves forward along pending, in_progress, done, or from
\* a status that is not final to blocked or skipped; a step that is done
\* is never pending or in_progress afterwards.
C24_StatusOnlyMovesForward ==
    [][StatusesUpdated =>
          \A i \in 1..Len(plan_steps) :
              ForwardMove(plan_steps[i].status, plan_steps'[i].status)]_vars

\* a step that was done is pending again
DoneStepPendingAgain ==
    /\ locals # Null
    /\ locals.updates = <<[stepId |-> 1, status |-> "pending", note |-> Null]>>
    /\ output.isError = FALSE
    /\ \E i \in 1..Len(plan_steps) :
          /\ plan_steps[i].sessionId = locals.sessionId
          /\ plan_steps[i].stepId = 1
          /\ plan_steps[i].status = "pending"
          /\ plan_steps[i].note = [text |-> "n"]

\* ------------------------------------------------------------------------
\* What update_plan_status changes (SpecTools)
\* ------------------------------------------------------------------------

\* the rows of plan_steps that the updates name in the session
NamedRows(sessionId, updates) ==
    {j \in 1..Len(plan_steps) :
        /\ plan_steps[j].sessionId = sessionId
        /\ \E i \in 1..Len(updates) : updates[i].stepId = plan_steps[j].stepId}

\* the rows named by an update of the list that carries a note
NotedRows(sessionId, updates) ==
    {j \in NamedRows(sessionId, updates) :
        \E i \in 1..Len(updates) :
            updates[i].stepId = plan_steps[j].stepId /\ updates[i].note # Null}

\* what a call of update_plan_status for a session that exists does
ChangedCountReported(sessionId, updates) ==
    LET named == NamedRows(sessionId, updates)
    IN /\ named = {} =>
             /\ output' = jsonToolError("PLAN_STEP_NOT_FOUND")
             /\ UNCHANGED <<plans, plan_steps>>
             /\ locals'.touched = {}
       /\ named # {} =>
             /\ output'.isError = FALSE
             /\ output'.updated = Cardinality(named)
             /\ locals'.touched = {sessionId}
       /\ \A j \in 1..Len(plan_steps) :
             /\ j \notin named => plan_steps'[j] = plan_steps[j]
             /\ j \notin NotedRows(sessionId, updates) =>
                   plan_steps'[j].note = plan_steps[j].note

OwnsListedSteps(plan, sessionId) ==
    \A i \in 1..Len(ListedSteps(sessionId)) :
        ListedSteps(sessionId)[i].planId = plan.id

\* C26: after any sequence of build_plan calls for a session, whenever the
\* calls are made, the plan that getLatestPlan returns for the session is
\* the plan whose steps are stored: every step that listStepsBySession
\* returns has its planId.
C26_LatestPlanOwnsStoredSteps ==
    \A sessionId \in Sessions :
        \A plan \in getLatestPlan(plans, sessionId) :
            OwnsListedSteps(plan, sessionId)

\* no two plans of the session were created at the same reading of the clock
CreatedApart(sessionId) ==
    \A i, j \in 1..Len(plans) :
        (plans[i].sessionId = sessionId /\ plans[j].sessionId = sessionId
         /\ plans[i].createdAt = plans[j].createdAt) => i = j

\* the latest plan owns the stored steps where the creation instants differ
LatestOwnsStepsWhenCreatedApart ==
    \A sessionId \in Sessions :
        CreatedApart(sessionId) =>
            \A plan \in getLatestPlan(plans, sessionId) :
                OwnsListedSteps(plan, sessionId)

\* two plans of one session with one creation instant, the steps stored
\* being those of the second
TwoPlansOneInstant ==
    /\ Len(plans) = 2
    /\ plans[1].sessionId = "s1"
    /\ plans[2].sessionId = "s1"
    /\ plans[1].createdAt = plans[2].createdAt
    /\ Len(ListedSteps("s1")) = 2
    /\ plans[1] \in getLatestPlan(plans, "s1")
    /\ ~OwnsListedSteps(plans[1], "s1")

\* ------------------------------------------------------------------------
\* Re-extraction and the verification status (SpecAssumptionStore)
\* ------------------------------------------------------------------------

\* every record that was stored before the step has the status it had
StatusesKept ==
    \A i \in 1..Len(assumptions) : assumptions'[i].status = assumptions[i].status

\* C27: list_assumptions run again on a text whose assumption is stored
\* already (same session, same normalized hash) leaves the verification
\* status of the stored record as it was: an assumption that
\* assumption_check marked verified is verified afterwards.
C27_ReextractionKeepsStatus ==
    [][\A sessionId \in Sessions, texts \in AssumptionTextLists :
          upsertMany(sessionId, texts) => StatusesKept]_vars

\* ------------------------------------------------------------------------
\* Specification SpecOwnGraphs: the subtasks of decomposeTask and the steps
\* of buildPlan handed to runConsistencyCheck as draft steps, with the
\* targets circular-deps and missing-steps.  output keeps the draft steps
\* and the result of the check.
\* ------------------------------------------------------------------------

OwnGraphInputs ==
    {[engine |-> "buildPlan", subtasks |-> st] : st \in StrategyInputs}
    \cup CapDecomposeInputs

InitOwnGraphs ==
    /\ pc = "ready"
    /\ input \in OwnGraphInputs
    /\ locals = Null
    /\ output = Null
    /\ plans = <<>>
    /\ plan_steps = {}
    /\ assumptions = {}
    /\ clock = 0
    /\ sessions = {}

\* the check of the draft steps, nothing else given
checkOwnGraph(steps, policy) ==
    runConsistencyCheck(
        [draft |-> [claims |-> <<>>, conclusions |-> <<>>, planText |-> <<>>,
                    stepsGiven |-> TRUE, steps |-> steps],
         checkTargets |-> {"circular-deps", "missing-steps"},
         normalizedGoal |-> <<>>,
         sessionPlanSteps |-> <<>>,
         sessionAssumptions |-> <<>>,
         recentDecisionLogs |-> <<>>,
         policy |-> policy])

OwnGraphChecked(call, steps, policy) ==
    /\ locals' = call
    /\ output' = [steps |-> steps, check |-> checkOwnGraph(steps, policy)]
    /\ pc' = "done"
    /\ UNCHANGED <<input, plans, plan_steps, assumptions, clock, sessions>>

PlanChecked(strategy, constraintCount, mode) ==
    /\ pc = "ready"
    /\ input.engine = "buildPlan"
    /\ LET plan == buildPlan([subtasks |-> input.subtasks, strategy |-> strategy,
                              constraintCount |-> constraintCount,
                              includeCheckpoints |-> TRUE,
                              policy |-> POLICY_BY_MODE[mode]])
       IN OwnGraphChecked([strategy |-> strategy, mode |-> mode],
                          [i \in 1..Len(plan.steps) |->
                              [id |-> plan.steps[i].stepId,
                               text |-> plan.steps[i].title,
                               dependsOn |-> plan.steps[i].dependsOn]],
                          POLICY_BY_MODE[mode])

DecompositionChecked(decompositionMode, mode) ==
    /\ pc = "ready"
    /\ input.engine = "decomposeTask"
    /\ LET decomposition == decomposeTask([taskType |-> input.taskType,
                                           constraintCount |-> input.constraintCount,
                                           mode |-> decompositionMode,
                                           policy |-> POLICY_BY_MODE[mode]])
       IN OwnGraphChecked([decompositionMode |-> decompositionMode, mode |-> mode],
                          [i \in 1..Len(decomposition.subtasks) |->
                              [id |-> decomposition.subtasks[i].id,
                               text |-> <<decomposition.subtasks[i].title>>,
                               dependsOn |-> decomposition.subtasks[i].dependsOn]],
                          POLICY_BY_MODE[mode])

NextOwnGraphs ==
    \E mode \in ClientModes :
        \/ \E strategy \in PlanStrategies, constraintCount \in {0, 5} :
              PlanChecked(strategy, constraintCount, mode)
        \/ \E decompositionMode \in {"linear", "tree", "milestone"} :
              DecompositionChecked(decompositionMode, mode)

SpecOwnGraphs == InitOwnGraphs /\ [][NextOwnGraphs]_vars

\* C28: the subtasks of every decomposeTask output (linear, tree,
\* milestone) and the steps of every buildPlan output (balanced, fastest,
\* minimum-risk), passed with their ids and dependsOn as draft steps to a
\* consistency check with the targets circular-deps and missing-steps,
\* give no circular-dependency issue and no missing-step issue: neither
\* detector finds anything and the check passes.
C28_OwnGraphsAreClean ==
    pc = "done" =>
        /\ detectCircularDependencies(output.steps, POLICY_BY_MODE[locals.mode]) = <<>>
        /\ detectMissingSteps(output.steps, <<>>, <<>>, POLICY_BY_MODE[locals.mode]) = <<>>
        /\ \A i \in 1..Len(output.check.issues) :
              output.check.issues[i].type \notin {"circular-dependency", "missing-step"}
        /\ output.check.summary.pass

\* a plan built from subtasks that depend on one another in a ring, with
\* three steps or more, each after the first depending on some step
C28_Witness ==
    /\ pc = "done"
    /\ input.engine = "buildPlan"
    /\ Len(input.subtasks) >= 3
    /\ \A i \in 1..Len(input.subtasks) : input.subtasks[i].dependsOn # <<>>
    /\ Len(output.steps) >= 3
    /\ \A i \in 2..Len(output.steps) : output.steps[i].dependsOn # <<>>
    /\ output.check.summary.pass

\* a tree decomposition whose last subtask depends on several subtasks
TreeDecompositionChecked ==
    /\ pc = "done"
    /\ input.engine = "decomposeTask"
    /\ locals.decompositionMode = "tree"
    /\ Len(output.steps) >= 4
    /\ Len(output.steps[Len(output.steps)].dependsOn) >= 2
    /\ output.check.summary.pass

\* ------------------------------------------------------------------------
\* utils/validation and tools/common: the size policy of a request
\* A client profile is absent (Null) or [mode, tokensGiven,
\* maxContextTokens]: the mode is "undefined" where the profile names
\* none, tokensGiven tells whether maxContextTokens is defined.
\* ------------------------------------------------------------------------

\* clientProfile?.mode === "small" || (maxContextTokens ?? Infinity) <= 2000,
\* then clientProfile?.mode === "deep" || (maxContextTokens ?? 0) >= 16000
resolveClientMode(clientProfile) ==
    LET mode == IF clientProfile = Null THEN "undefined" ELSE clientProfile.mode
        given == clientProfile # Null /\ clientProfile.tokensGiven
    IN IF mode = "small" \/ (given /\ clientProfile.maxContextTokens <= 2000)
       THEN "small"
       ELSE IF mode = "deep" \/ (given /\ clientProfile.maxContextTokens >= 16000)
       THEN "deep"
       ELSE "balanced"

getResponsePolicy(clientProfile) == POLICY_BY_MODE[resolveClientMode(clientProfile)]

\* explicitProfile ?? sessionProfile
resolvePolicy(explicitProfile, sessionProfile) ==
    getResponsePolicy(IF explicitProfile # Null THEN explicitProfile ELSE sessionProfile)

\* ------------------------------------------------------------------------
\* Specification SpecPolicy: resolvePolicy on the profile of a request and
\* the profile stored with its session
\* ------------------------------------------------------------------------

\* maxContextTokens as the schema admits it (an integer of 256..1000000),
\* at and next to the two thresholds
ProfileTokens == {256, 2000, 2001, 15999, 16000, 1000000}

ClientProfiles ==
    {Null}
    \cup {[mode |-> mode, tokensGiven |-> TRUE, maxContextTokens |-> tokens] :
            mode \in ClientModes \cup {"undefined"}, tokens \in ProfileTokens}
    \cup {[mode |-> mode, tokensGiven |-> FALSE, maxContextTokens |-> 0] :
            mode \in ClientModes \cup {"undefined"}}

InitPolicy ==
    /\ pc = "ready"
    /\ input \in {[explicitProfile |-> explicit, sessionProfile |-> stored] :
                     explicit \in ClientProfiles, stored \in ClientProfiles}
    /\ locals = Null
    /\ output = Null
    /\ plans = <<>>
    /\ plan_steps = {}
    /\ assumptions = {}
    /\ clock = 0
    /\ sessions = {}

ResolvePolicyCall ==
    /\ pc = "ready"
    /\ output' = resolvePolicy(input.explicitProfile, input.sessionProfile)
    /\ pc' = "done"
    /\ UNCHANGED <<input, locals, plans, plan_steps, assumptions, clock, sessions>>

NextPolicy == ResolvePolicyCall

SpecPolicy == InitPolicy /\ [][NextPolicy]_vars

\* the profile that counts: the one given with the request, else the
\* session's
GoverningProfile ==
    IF input.explicitProfile # Null THEN input.explicitProfile ELSE input.sessionProfile

NamesMode(profile) == profile # Null /\ profile.mode \in ClientModes

\* C29: when the client profile names a mode the resolved policy has that
\* mode and that mode's caps, whatever maxContextTokens the profile
\* carries; the profile given with the request counts before the one
\* stored with the session; and with no profile the mode is balanced.
C29_NamedModeIsResolved ==
    pc = "done" =>
        /\ NamesMode(GoverningProfile) =>
              /\ output.mode = GoverningProfile.mode
              /\ output = POLICY_BY_MODE[GoverningProfile.mode]
        /\ output = getResponsePolicy(GoverningProfile)
        /\ GoverningProfile = Null => output.mode = "balanced"

\* the named mode is the resolved one where maxContextTokens is absent or
\* lies strictly between the thresholds, and small is always honoured
NamedModeResolvedBetweenThresholds ==
    (pc = "done" /\ NamesMode(GoverningProfile)) =>
        LET tokens == GoverningProfile.maxContextTokens
        IN ((~GoverningProfile.tokensGiven \/ (tokens > 2000 /\ tokens < 16000))
            \/ GoverningProfile.mode = "small")
              => output = POLICY_BY_MODE[GoverningProfile.mode]

\* the rest of the claim: precedence of the request's profile and the
\* default
PrecedenceAndDefault ==
    pc = "done" =>
        /\ output = getResponsePolicy(GoverningProfile)
        /\ GoverningProfile = Null => output.mode = "balanced"

\* a request that names deep with a small context window gets small
DeepNamedSmallResolved ==
    /\ pc = "done"
    /\ input.explicitProfile =
          [mode |-> "deep", tokensGiven |-> TRUE, maxContextTokens |-> 2000]
    /\ output.mode = "small"

\* a request that names balanced with a large context window gets deep
BalancedNamedDeepResolved ==
    /\ pc = "done"
    /\ input.explicitProfile =
          [mode |-> "balanced", tokensGiven |-> TRUE, maxContextTokens |-> 16000]
    /\ output = POLICY_BY_MODE["deep"]

\* ------------------------------------------------------------------------
\* reasoning/analyze: extractConstraints, on strings as character
\* sequences
\* ------------------------------------------------------------------------

CONSTRAINT_MARKERS ==
    {<<"m", "u", "s", "t">>,
     <<"c", "a", "n", "n", "o", "t">>,
     <<"c", "a", "n", "'", "t">>,
     <<"o", "n", "l", "y">>,
     <<"w", "i", "t", "h", "o", "u", "t">>,
     <<"b", "u", "d", "g", "e", "t">>,
     <<"d", "e", "a", "d", "l", "i", "n", "e">>,
     <<"r", "e", "q", "u", "i", "r", "e", "d">>,
     <<"s", "t", "r", "i", "c", "t">>,
     <<"t", "o", "k", "e", "n">>,
     <<"l", "i", "m", "i", "t">>,
     <<"n", "o", " ">>}

\* text.includes(marker)
Includes(text, marker) ==
    \E at \in 0..(Len(text) - Len(marker)) :
        \A k \in 1..Len(marker) : text[at + k] = marker[k]

\* task.split(/[.\n]/): the pieces between the separators, empty ones too
RECURSIVE splitChunks(_, _)
splitChunks(text, chunk) ==
    IF text = <<>> THEN <<chunk>>
    ELSE IF Head(text) \in {".", "\n"} THEN <<chunk>> \o splitChunks(Tail(text), <<>>)
    ELSE splitChunks(Tail(text), Append(chunk, Head(text)))

\* the chunks of the task that hold a marker word
discoveredConstraints(task) ==
    LET chunks == splitChunks(task, <<>>)
        normalized == [i \in 1..Len(chunks) |-> normalizeWhitespace(chunks[i])]
    IN SelectSeq(normalized,
                 LAMBDA chunk :
                    /\ Len(chunk) > 0
                    /\ \E marker \in CONSTRAINT_MARKERS :
                          Includes(toLowerCase(chunk), marker))

\* first occurrences under the key value.toLowerCase(), in order
pickUniqueStrings(values) ==
    With(SelectSeq([i \in 1..Len(values) |-> <<i, values[i]>>],
                   LAMBDA p : \A j \in 1..(p[1] - 1) :
                                 toLowerCase(values[j]) # toLowerCase(p[2])),
         LAMBDA kept : [k \in 1..Len(kept) |-> kept[k][2]])

extractConstraints(task, explicitConstraints, policy) ==
    LET unique == pickUniqueStrings(explicitConstraints \o discoveredConstraints(task))
        merged == [i \in 1..Len(unique) |-> sanitizeText(unique[i], policy.textMaxChars)]
    IN capItems(merged, policy.maxGenericItems)

\* ------------------------------------------------------------------------
\* Specification SpecConstraints: the constraints of analyzeTask for a task
\* and the constraints given with it.  The only upper-case letter of the
\* texts is A.
\* ------------------------------------------------------------------------

\* the number of numbered constraints a caller gives
MaxConstraintItems == 13

\* "only a"
TextOnlyLower == <<"o", "n", "l", "y", " ", "a">>

\* "only A"
TextOnlyUpper == <<"o", "n", "l", "y", " ", "A">>

\* "only  a", with two spaces
TextOnlySpaced == <<"o", "n", "l", "y", " ", " ", "a">>

\* "go on"
TextGoOn == <<"g", "o", " ", "o", "n">>

\* "only " and a number
TextOnlyNumbered(i) == <<"o", "n", "l", "y", " ">> \o Digits(i)

\* two texts of the schema's 300 characters at most that differ in the
\* last character only
TextLongEnding(c) ==
    Fill("x", LongLen) \o <<" ", "l", "i", "m", "i", "t", " ">>
    \o Fill("y", ShortLen + ShortLen) \o <<c>>

\* the sentences of a task, joined by ". "
ConstraintTasks ==
    {JoinWith(sentences, <<".", " ">>) :
        sentences \in {<<TextGoOn>>, <<TextOnlyLower>>, <<TextOnlyUpper, TextGoOn>>,
                       <<TextGoOn, TextOnlyLower, TextOnlyUpper>>}}

\* the constraints a caller gives: strings of 1 to 300 characters
ExplicitConstraintLists ==
    {<<>>, <<TextOnlyUpper>>, <<TextOnlySpaced>>, <<TextOnlyLower, TextOnlyUpper>>,
     <<TextOnlyLower, TextOnlySpaced>>, <<<<" ">>>>,
     <<TextLongEnding("a"), TextLongEnding("b")>>}
    \cup {[i \in 1..n |-> TextOnlyNumbered(i)] : n \in 1..MaxConstraintItems}

InitConstraints ==
    /\ pc = "ready"
    /\ input \in {[task |-> task, constraints |-> given] :
                     task \in ConstraintTasks, given \in ExplicitConstraintLists}
    /\ locals = Null
    /\ output = Null
    /\ plans = <<>>
    /\ plan_steps = {}
    /\ assumptions = {}
    /\ clock = 0
    /\ sessions = {}

\* analyzeTask, lines 84 and 87: the constraints of the normalized task
AnalyzeConstraintsCall(mode) ==
    /\ pc = "ready"
    /\ locals' = [mode |-> mode]
    /\ output' = [constraints |->
                    extractConstraints(normalizeWhitespace(input.task),
                                       input.constraints, POLICY_BY_MODE[mode])]
    /\ pc' = "done"
    /\ UNCHANGED <<input, plans, plan_steps, assumptions, clock, sessions>>

NextConstraints == \E mode \in ClientModes : AnalyzeConstraintsCall(mode)

SpecConstraints == InitConstraints /\ [][NextConstraints]_vars

\* the constraints as they are returned: whitespace normalized, cut to
\* textMaxChars
Returned(values) ==
    {sanitizeText(values[i], POLICY_BY_MODE[locals.mode].textMaxChars) :
        i \in 1..Len(values)}

\* every entry comes from the caller or from the task, and an entry that is
\* not the caller's has none of the caller's after it
MergedCallerFirst ==
    LET given == Returned(input.constraints)
        found == Returned(discoveredConstraints(normalizeWhitespace(input.task)))
    IN /\ \A i \in 1..Len(output.constraints) : output.constraints[i] \in given \cup found
       /\ \A i, j \in 1..Len(output.constraints) :
             (i < j /\ output.constraints[i] \notin given)
                 => output.constraints[j] \notin given \ found
       /\ (input.constraints # <<>> /\ output.constraints # <<>>)
             => output.constraints[1] \in given

NoTwoEqualIgnoringCase ==
    \A i, j \in 1..Len(output.constraints) :
        toLowerCase(output.constraints[i]) = toLowerCase(output.constraints[j]) => i = j

WithinGenericCap ==
    Len(output.constraints) <= POLICY_BY_MODE[locals.mode].maxGenericItems

\* C30: the constraints that analyzeTask returns merge the constraints the
\* caller gave, first, with the sentences of the task that hold a marker
\* word, hold no two entries that are equal when compared without regard
\* to case, and number at most maxGenericItems.
C30_ConstraintsMergedUniqueCapped ==
    pc = "done" => MergedCallerFirst /\ NoTwoEqualIgnoringCase /\ WithinGenericCap

\* the merge and the cap taken alone
ConstraintsMergedAndCapped ==
    pc = "done" => MergedCallerFirst /\ WithinGenericCap

\* the caller's constraints are as sanitizeText would leave them
GivenAreSanitized ==
    \A i \in 1..Len(input.constraints) :
        input.constraints[i] =
            sanitizeText(input.constraints[i], POLICY_BY_MODE[locals.mode].textMaxChars)

\* no two entries are equal where the caller's constraints need no
\* sanitizing
UniqueWhenGivenAreSanitized ==
    (pc = "done" /\ GivenAreSanitized) => NoTwoEqualIgnoringCase

\* "only a" twice: given with two spaces, and found in the task
SameConstraintTwice ==
    /\ pc = "done"
    /\ input.constraints = <<TextOnlySpaced>>
    /\ output.constraints = <<TextOnlyLower, TextOnlyLower>>

\* two long constraints that differ past textMaxChars, cut to one text
TruncatedTwins ==
    /\ pc = "done"
    /\ input.constraints = <<TextLongEnding("a"), TextLongEnding("b")>>
    /\ Len(input.constraints[1]) <= 300
    /\ locals.mode = "small"
    /\ output.constraints[1] = output.constraints[2]

\* thirteen constraints given and one found, cut to the twelve of small
ConstraintsCapped ==
    /\ pc = "done"
    /\ Len(input.constraints) = MaxConstraintItems
    /\ locals.mode = "small"
    /\ Len(output.constraints) = POLICY_BY_MODE["small"].maxGenericItems
    /\ NoTwoEqualIgnoringCase

====
